---- MODULE Spec2Model ----
(***************************************************************************)
(* A model of the ID scanner: the /api/scan handler of backend/server.js,  *)
(* the three OCR adapters (tesseractService, easyocrService,               *)
(* textractService), the lazily resolved MRZ decoder and the client-side   *)
(* parser app/utils/idParser.ts.                                           *)
(*                                                                         *)
(* JavaScript strings are TLA+ strings; a nullable value is the empty      *)
(* tuple (null/undefined) or a one-element tuple holding the value, so     *)
(* that the empty string and null stay distinct as they are in the code.   *)
(***************************************************************************)
EXTENDS Naturals, Integers, Sequences, FiniteSets, TLC

VARIABLES
    call,             \* the operation in flight or just finished (sequential specifications)
    worker,           \* tesseractService: `worker` is set (initWorker has run)
    _mrzParse,        \* tesseractService: the memoized decoder: "null", "false" or "parse"
    mrzModule,        \* environment: what import('mrz') gives in this process
    textractClient,   \* textractService: `textractClient` is set
    env,              \* process.env: which AWS credentials are set
    reqPc,            \* concurrent getMrzParse calls: each caller's position
    reqRet,           \* concurrent getMrzParse calls: each caller's return value
    imports,          \* ghost: how many times import('mrz') was started
    resolutionFailed, \* ghost: a getMrzParse call has ended with the decoder unavailable
    parsed,           \* the parsers are pure: their values on the sample texts, tabulated
    app               \* the app: route shown, scan screen state, shared scannedData, timers

vars == <<call, worker, _mrzParse, mrzModule, textractClient, env,
          reqPc, reqRet, imports, resolutionFailed, parsed, app>>

---------------------------------------------------------------------------
(* Nullable values and string helpers *)

Null == <<>>
Some(v) == <<v>>
IsNull(v) == v = <<>>
Val(v) == v[1]

\* JS `s || null` for a string s
OrNull(s) == IF s = "" THEN Null ELSE Some(s)

\* JS a || b for nullable strings: the empty string is falsy as well
OrElse(a, b) == IF IsNull(a) \/ a = Some("") THEN b ELSE a

\* String.prototype.substring on 1-based inclusive positions, clamped to the string
Sub(s, a, b) ==
    LET lo == IF a < 1 THEN 1 ELSE a
        hi == IF b > Len(s) THEN Len(s) ELSE b
    IN  IF lo > hi THEN "" ELSE SubSeq(s, lo, hi)

\* the character at position i, "" outside the string
Ch(s, i) == Sub(s, i, i)

Upper == {"A","B","C","D","E","F","G","H","I","J","K","L","M",
          "N","O","P","Q","R","S","T","U","V","W","X","Y","Z"}
Lower == {"a","b","c","d","e","f","g","h","i","j","k","l","m",
          "n","o","p","q","r","s","t","u","v","w","x","y","z"}
Digit == {"0","1","2","3","4","5","6","7","8","9"}
\* the characters \s matches among those the inputs use
Space == {" ", "\t", "\n", "\r"}

RECURSIVE SeqsUpTo(_, _)
\* the sequences over S of length at most n
SeqsUpTo(S, n) ==
    IF n = 0 THEN {<<>>}
    ELSE LET shorter == SeqsUpTo(S, n - 1)
         IN  shorter \cup {Append(q, x) : q \in {r \in shorter : Len(r) = n - 1}, x \in S}

RECURSIVE JoinWith(_, _)
\* Array.prototype.join(sep) over a sequence of strings
JoinWith(parts, sep) ==
    IF Len(parts) = 0 THEN ""
    ELSE IF Len(parts) = 1 THEN parts[1]
    ELSE parts[1] \o sep \o JoinWith(Tail(parts), sep)

\* Array.prototype.filter(Boolean) over a sequence of strings
FilterBoolean(parts) == SelectSeq(parts, LAMBDA p : p # "")

DigitStr == <<"0","1","2","3","4","5","6","7","8","9">>

RECURSIVE NatToString(_)
\* the decimal digits of a natural number
NatToString(n) ==
    IF n < 10 THEN DigitStr[n + 1]
    ELSE NatToString(n \div 10) \o DigitStr[(n % 10) + 1]

\* Number.prototype.toFixed(1) of a value held in tenths
ToFixed1(tenths) == NatToString(tenths \div 10) \o "." \o DigitStr[(tenths % 10) + 1]

---------------------------------------------------------------------------
(* String.prototype methods and the regular-expression atoms the code uses *)

LowerSeq == <<"a","b","c","d","e","f","g","h","i","j","k","l","m",
              "n","o","p","q","r","s","t","u","v","w","x","y","z">>
UpperSeq == <<"A","B","C","D","E","F","G","H","I","J","K","L","M",
              "N","O","P","Q","R","S","T","U","V","W","X","Y","Z">>

UpperCh(c) ==
    IF c \in Lower THEN UpperSeq[CHOOSE i \in 1..26 : LowerSeq[i] = c] ELSE c

RECURSIVE ToUpperCase(_)
ToUpperCase(s) ==
    IF s = "" THEN "" ELSE UpperCh(Ch(s, 1)) \o ToUpperCase(Sub(s, 2, Len(s)))

\* \w, and the character at i when there is one
IsWordCh(c) == c \in Upper \cup Lower \cup Digit \cup {"_"}
IsLetter(c) == c \in Upper \cup Lower
WordAt(s, i) == i >= 1 /\ i <= Len(s) /\ IsWordCh(Ch(s, i))
DigitAt(s, i) == i >= 1 /\ i <= Len(s) /\ Ch(s, i) \in Digit

\* \b holds before the character at i (i = Len(s) + 1: at the end)
BoundaryAt(s, i) == WordAt(s, i - 1) # WordAt(s, i)

RECURSIVE RunLen(_, _, _)
\* how many characters from i on belong to the class C
RunLen(s, i, C) ==
    IF i <= Len(s) /\ Ch(s, i) \in C THEN 1 + RunLen(s, i + 1, C) ELSE 0

\* String.prototype.trim
Trim(s) ==
    LET keep == {i \in 1..Len(s) : Ch(s, i) \notin Space}
    IN  IF keep = {} THEN ""
        ELSE Sub(s, CHOOSE i \in keep : \A j \in keep : i <= j,
                       CHOOSE i \in keep : \A j \in keep : i >= j)

RECURSIVE RemoveAll(_, _)
\* s.replace(/[C]/g, '')
RemoveAll(s, C) ==
    IF s = "" THEN ""
    ELSE (IF Ch(s, 1) \in C THEN "" ELSE Ch(s, 1)) \o RemoveAll(Sub(s, 2, Len(s)), C)

RECURSIVE ReplaceAll(_, _, _)
\* s.replace(/c/g, d) for single characters
ReplaceAll(s, c, d) ==
    IF s = "" THEN ""
    ELSE (IF Ch(s, 1) = c THEN d ELSE Ch(s, 1)) \o ReplaceAll(Sub(s, 2, Len(s)), c, d)

\* s.startsWith(t) at position i
HasAt(s, i, t) == i >= 1 /\ i + Len(t) - 1 <= Len(s) /\ Sub(s, i, i + Len(t) - 1) = t

\* String.prototype.includes
Includes(s, t) == \E i \in 1..(Len(s) + 1) : HasAt(s, i, t)

\* String.prototype.indexOf, 1-based; 0 when t does not occur
IndexOf(s, t) ==
    IF Includes(s, t)
    THEN CHOOSE i \in 1..(Len(s) + 1) : HasAt(s, i, t) /\ \A j \in 1..(i - 1) : ~HasAt(s, j, t)
    ELSE 0

RECURSIVE SplitOn(_, _)
\* s.split(sep) for a non-empty literal separator
SplitOn(s, sep) ==
    LET i == IndexOf(s, sep)
    IN  IF i = 0 THEN <<s>>
        ELSE <<Sub(s, 1, i - 1)>> \o SplitOn(Sub(s, i + Len(sep), Len(s)), sep)

RECURSIVE SplitOnClass(_, _)
\* s.split(/[C]+/): the pieces between maximal runs of characters of C
SplitOnClass(s, C) ==
    LET seps == {i \in 1..Len(s) : Ch(s, i) \in C}
    IN  IF seps = {} THEN <<s>>
        ELSE LET i == CHOOSE k \in seps : \A j \in seps : k <= j
                 n == RunLen(s, i, C)
             IN  <<Sub(s, 1, i - 1)>> \o SplitOnClass(Sub(s, i + n, Len(s)), C)

\* text.split('\n').map(l => l.trim()).filter(Boolean)
LinesOf(text) ==
    LET raw == SplitOn(text, "\n")
    IN  FilterBoolean([i \in 1..Len(raw) |-> Trim(raw[i])])

\* every character of s is in C
AllIn(s, C) == \A i \in 1..Len(s) : Ch(s, i) \in C

---------------------------------------------------------------------------
(* The regex parsers of tesseractService.js. easyocrService.js holds a     *)
(* byte-identical copy and app/utils/idParser.ts the TypeScript original.  *)

DateSep == {"/", "-"}
MonthNames == {"JAN","FEB","MAR","APR","MAY","JUN","JUL","AUG","SEP","OCT","NOV","DEC"}

\* The length of the match of date pattern p that starts at i, 0 when there is
\* none. Each pattern ends in \d{..}\b and its digit groups are delimited by
\* non-digits, so at most one match starts at a given position.
\*   p1 = /\b(\d{1,2})[\/\-](\d{1,2})[\/\-](\d{2,4})\b/g
\*   p2 = /\b(\d{4})[\/\-](\d{1,2})[\/\-](\d{1,2})\b/g
\*   p3 = /\b(\d{1,2})[\s\-]?(JAN|...|DEC)[A-Z]*[\s\-,]*(\d{2,4})\b/gi
DateMatchLen(p, s, i) ==
    LET r1 == RunLen(s, i, Digit)
    IN  IF ~BoundaryAt(s, i) \/ r1 = 0 THEN 0
        ELSE IF p = "p3"
        THEN LET a == i + r1
                 b == IF a <= Len(s) /\ Ch(s, a) \in Space \cup {"-"} THEN a + 1 ELSE a
                 letters == RunLen(s, b, Upper \cup Lower)
                 c == b + letters
                 seps == RunLen(s, c, Space \cup {"-", ","})
                 d == c + seps
                 r3 == RunLen(s, d, Digit)
             IN  IF /\ r1 \in 1..2
                    /\ letters >= 3
                    /\ ToUpperCase(Sub(s, b, b + 2)) \in MonthNames
                    /\ r3 \in 2..4
                    /\ ~WordAt(s, d + r3)
                 THEN d + r3 - i ELSE 0
        ELSE LET a == i + r1
                 r2 == RunLen(s, a + 1, Digit)
                 b == a + 1 + r2
                 r3 == RunLen(s, b + 1, Digit)
                 first == IF p = "p1" THEN 1..2 ELSE {4}
                 last == IF p = "p1" THEN 2..4 ELSE 1..2
             IN  IF /\ r1 \in first
                    /\ a <= Len(s) /\ Ch(s, a) \in DateSep
                    /\ r2 \in 1..2
                    /\ b <= Len(s) /\ Ch(s, b) \in DateSep
                    /\ r3 \in last
                    /\ ~WordAt(s, b + 1 + r3)
                 THEN b + 1 + r3 - i ELSE 0

RECURSIVE DateMatches(_, _, _)
\* `while ((match = p.exec(text)) !== null) dates.push(match[0])`: the matches
\* of p from position i on, each search resuming where the last match ended
DateMatches(p, s, i) ==
    IF i > Len(s) THEN <<>>
    ELSE LET n == DateMatchLen(p, s, i)
         IN  IF n = 0 THEN DateMatches(p, s, i + 1)
             ELSE <<Sub(s, i, i + n - 1)>> \o DateMatches(p, s, i + n)

\* the year-first pattern run before the others
extractAllDates_yearFirst(text) ==
    DateMatches("p2", text, 1) \o DateMatches("p1", text, 1) \o DateMatches("p3", text, 1)

extractAllDates(text) ==
    DateMatches("p1", text, 1) \o DateMatches("p2", text, 1) \o DateMatches("p3", text, 1)

\* `allDates[0] || null`
FirstDate(text) ==
    LET allDates == extractAllDates(text)
    IN  IF Len(allDates) = 0 THEN Null ELSE OrNull(allDates[1])

\* line.split(/[:\s]+/), then parts.slice(1).join(' ').trim() || null
extractValueAfterLabel(line) ==
    LET parts == SplitOnClass(line, Space \cup {":"})
    IN  IF Len(parts) >= 2 THEN OrNull(Trim(JoinWith(Tail(parts), " "))) ELSE Null

NameLikeMin == 2
NameLikeMax == 50

\* /^[A-Za-z\s\-']+$/ and the length bounds
isNameLike(text) ==
    /\ text # ""
    /\ AllIn(text, Upper \cup Lower \cup Space \cup {"-", "'"})
    /\ Len(text) >= NameLikeMin
    /\ Len(text) <= NameLikeMax

\* /\bW\b/ for a word W
HasWord(s, w) ==
    \E i \in 1..Len(s) : HasAt(s, i, w) /\ BoundaryAt(s, i) /\ BoundaryAt(s, i + Len(w))

\* the value after the label when the line passes `test` and the value is name-like
LabelledName(line, test) ==
    LET value == extractValueAfterLabel(line)
    IN  IF test /\ ~IsNull(value) /\ isNameLike(Val(value)) THEN value ELSE Null

RECURSIVE FirstSome(_)
\* the first non-null element of a sequence of nullable values
FirstSome(vs) ==
    IF Len(vs) = 0 THEN Null
    ELSE IF ~IsNull(Head(vs)) THEN Head(vs) ELSE FirstSome(Tail(vs))

RECURSIVE LastSome(_)
\* the last non-null element: what a loop that keeps overwriting ends with
LastSome(vs) ==
    IF Len(vs) = 0 THEN Null
    ELSE IF ~IsNull(vs[Len(vs)]) THEN vs[Len(vs)] ELSE LastSome(SubSeq(vs, 1, Len(vs) - 1))

FieldLabels == {"NAME","DOB","SEX","ADDRESS","LICENSE","EXP","CLASS","ISS","HT","WT",
                "EYES","HAIR","STATE","DL"}

\* strategy 3 of extractName on one line
UnlabelledName(line) ==
    IF (\E i \in 1..Len(line) : Ch(line, i) \in Digit) \/ Len(line) < 4 THEN Null
    ELSE IF ToUpperCase(Trim(line)) \in FieldLabels THEN Null
    ELSE LET words == SelectSeq(SplitOnClass(line, Space),
                                LAMBDA w : w # "" /\ AllIn(w, Upper \cup Lower) /\ Len(w) > 1)
         IN  IF Len(words) >= 2 /\ Len(words) <= 4 THEN Some(JoinWith(words, " ")) ELSE Null

extractName(lines) ==
    LET labelled == FirstSome([i \in 1..Len(lines) |->
            LET upper == ToUpperCase(lines[i])
            IN  LabelledName(lines[i],
                    (HasAt(upper, 1, "NAME") /\ BoundaryAt(upper, 5))
                    \/ Includes(upper, "FULL NAME"))])
        firstName == LastSome([i \in 1..Len(lines) |->
            LET upper == ToUpperCase(lines[i])
            IN  LabelledName(lines[i],
                    Includes(upper, "FIRST") \/ Includes(upper, "GIVEN") \/ HasWord(upper, "FN"))])
        lastName == LastSome([i \in 1..Len(lines) |->
            LET upper == ToUpperCase(lines[i])
            IN  LabelledName(lines[i],
                    Includes(upper, "LAST") \/ Includes(upper, "SURNAME") \/ HasWord(upper, "LN"))])
    IN  IF ~IsNull(labelled) THEN labelled
        ELSE IF ~IsNull(firstName) \/ ~IsNull(lastName)
        THEN Some(JoinWith((IF IsNull(firstName) THEN <<>> ELSE firstName)
                           \o (IF IsNull(lastName) THEN <<>> ELSE lastName), " "))
        ELSE FirstSome([i \in 1..Len(lines) |-> UnlabelledName(lines[i])])

LineTerminator == {"\n", "\r"}

\* line.replace(/.*ADDRESS[:\s]*/i, ''): the first match starts where the first
\* run of non-terminators holding ADDRESS starts, `.*` is greedy, so the match
\* ends after the last ADDRESS of that run and the [:\s] that follow it
RemoveAddressLabel(line) ==
    LET upper == ToUpperCase(line)
        occ == {q \in 1..Len(line) : HasAt(upper, q, "ADDRESS")}
        segStart(q) ==
            LET terms == {j \in 1..(q - 1) : Ch(line, j) \in LineTerminator}
            IN  IF terms = {} THEN 1 ELSE 1 + CHOOSE j \in terms : \A k \in terms : k <= j
    IN  IF occ = {} THEN line
        ELSE LET start == CHOOSE p \in {segStart(q) : q \in occ} :
                              \A q \in occ : p <= segStart(q)
                 same == {q \in occ : segStart(q) = start}
                 last == CHOOSE q \in same : \A r \in same : r <= q
                 n == RunLen(line, last + 7, Space \cup {":"})
             IN  Sub(line, 1, start - 1) \o Sub(line, last + 7 + n, Len(line))

StateAbbrevs == {"AL","AK","AZ","AR","CA","CO","CT","DE","FL","GA","HI","ID","IL","IN","IA",
                 "KS","KY","LA","ME","MD","MA","MI","MN","MS","MO","MT","NE","NV","NH","NJ",
                 "NM","NY","NC","ND","OH","OK","OR","PA","RI","SC","SD","TN","TX","UT","VT",
                 "VA","WA","WV","WI","WY"}

\* US_STATES.test(line): /\b(AL|...|WY)\b/i
US_STATES(line) ==
    LET upper == ToUpperCase(line)
    IN  \E i \in 1..Len(line) :
            BoundaryAt(line, i) /\ Sub(upper, i, i + 1) \in StateAbbrevs
            /\ i + 1 <= Len(line) /\ BoundaryAt(line, i + 2)

\* ZIP_CODE.test(line): /\b\d{5}(-\d{4})?\b/
ZIP_CODE(line) ==
    \E i \in 1..Len(line) :
        /\ BoundaryAt(line, i)
        /\ \A k \in 0..4 : DigitAt(line, i + k)
        /\ \/ /\ HasAt(line, i + 5, "-")
              /\ \A k \in 6..9 : DigitAt(line, i + k)
              /\ BoundaryAt(line, i + 10)
           \/ BoundaryAt(line, i + 5)

StreetSuffixes == {"ST","STREET","AVE","AVENUE","RD","ROAD","DR","DRIVE","LN","LANE","BLVD",
                   "CT","COURT","WAY","PL","PLACE"}

\* STREET_PATTERN.test(line): /\d+\s+[\w\s]+(ST|STREET|...|PLACE)/i. A match is a
\* digit followed by whitespace, then at least one [\w\s], then a suffix.
STREET_PATTERN(line) ==
    LET upper == ToUpperCase(line)
    IN  \E d \in 1..Len(line) :
            /\ DigitAt(line, d)
            /\ d + 1 <= Len(line) /\ Ch(line, d + 1) \in Space
            /\ \E k \in (d + 3)..Len(line) :
                   /\ \A j \in (d + 2)..(k - 1) : IsWordCh(Ch(line, j)) \/ Ch(line, j) \in Space
                   /\ \E x \in StreetSuffixes : HasAt(upper, k, x)

AddressMinLen == 5

RECURSIVE AddressScan(_, _, _, _)
\* the loop of extractAddress from line i on: `capturing` and addressLines so far
AddressScan(lines, i, capturing, addressLines) ==
    IF i > Len(lines) THEN addressLines
    ELSE LET line == lines[i]
             upper == ToUpperCase(line)
         IN  IF Includes(upper, "ADDRESS") \/ Includes(upper, "ADDR")
             THEN LET afterLabel == Trim(RemoveAddressLabel(line))
                  IN  AddressScan(lines, i + 1, TRUE,
                          IF afterLabel # "" THEN Append(addressLines, afterLabel)
                          ELSE addressLines)
             ELSE IF capturing \/ STREET_PATTERN(line) \/ (US_STATES(line) /\ ZIP_CODE(line))
             THEN LET taken == Len(line) > AddressMinLen
                      acc == IF taken THEN Append(addressLines, line) ELSE addressLines
                  IN  IF ZIP_CODE(line) THEN acc
                      ELSE AddressScan(lines, i + 1, capturing \/ taken, acc)
             ELSE AddressScan(lines, i + 1, capturing, addressLines)

extractAddress(lines) ==
    LET addressLines == AddressScan(lines, 1, FALSE, <<>>)
    IN  IF Len(addressLines) > 0 THEN Some(JoinWith(addressLines, ", ")) ELSE Null

AlNum == Upper \cup Lower \cup Digit

\* the least element of a non-empty set of positions
MinOf(S) == CHOOSE i \in S : \A j \in S : i <= j

IdDigitsMin == 5
IdTokenMin == 7
IdTokenMax == 15

\* line.match(/[A-Z]?\d{5,}/i) || line.match(/[A-Z0-9]{7,15}/i), then match[0]
LabelledIdMatch(line) ==
    LET withLetter(i) == IsLetter(Ch(line, i)) /\ RunLen(line, i + 1, Digit) >= IdDigitsMin
        starts1 == {i \in 1..Len(line) : withLetter(i) \/ RunLen(line, i, Digit) >= IdDigitsMin}
        starts2 == {i \in 1..Len(line) : RunLen(line, i, AlNum) >= IdTokenMin}
    IN  IF starts1 # {}
        THEN LET i == MinOf(starts1)
             IN  IF withLetter(i)
                 THEN Some(Sub(line, i, i + RunLen(line, i + 1, Digit)))
                 ELSE Some(Sub(line, i, i + RunLen(line, i, Digit) - 1))
        ELSE IF starts2 # {}
        THEN LET i == MinOf(starts2)
                 n == RunLen(line, i, AlNum)
             IN  Some(Sub(line, i, i + (IF n > IdTokenMax THEN IdTokenMax ELSE n) - 1))
        ELSE Null

IdKeywords == {"DL", "LICENSE", "ID NO", "DOCUMENT", "NUMBER", "NO.", "ID#", "DLN"}

\* tier (a) on one line
KeywordId(line) ==
    IF \E k \in IdKeywords : Includes(ToUpperCase(line), k) THEN LabelledIdMatch(line) ELSE Null

LetterDigitsMin == 7

\* line.match(/\b[A-Z]\d{7,}\b/i): the digits run to a word boundary
LetterDigitsId(line) ==
    LET starts == {i \in 1..Len(line) :
                      /\ BoundaryAt(line, i) /\ IsLetter(Ch(line, i))
                      /\ RunLen(line, i + 1, Digit) >= LetterDigitsMin
                      /\ ~WordAt(line, i + 1 + RunLen(line, i + 1, Digit))}
    IN  IF starts = {} THEN Null
        ELSE LET i == MinOf(starts)
             IN  Some(Sub(line, i, i + RunLen(line, i + 1, Digit)))

AlnumIdMin == 8
AlnumIdMax == 12

\* line.match(/\b[A-Z0-9]{8,12}\b/), refused when the first match is all digits
AlnumId(line) ==
    LET starts == {i \in 1..Len(line) :
                      /\ BoundaryAt(line, i)
                      /\ RunLen(line, i, Upper \cup Digit) \in AlnumIdMin..AlnumIdMax
                      /\ ~WordAt(line, i + RunLen(line, i, Upper \cup Digit))}
    IN  IF starts = {} THEN Null
        ELSE LET i == MinOf(starts)
                 m == Sub(line, i, i + RunLen(line, i, Upper \cup Digit) - 1)
             IN  IF AllIn(m, Digit) THEN Null ELSE Some(m)

extractIDNumber(lines) ==
    LET a == FirstSome([i \in 1..Len(lines) |-> KeywordId(lines[i])])
        b == FirstSome([i \in 1..Len(lines) |-> LetterDigitsId(lines[i])])
        c == FirstSome([i \in 1..Len(lines) |-> AlnumId(lines[i])])
    IN  IF ~IsNull(a) THEN a ELSE IF ~IsNull(b) THEN b ELSE c

\* STATE_MAP, in the order Object.entries walks it
STATE_MAP ==
    <<
      <<"AL", "Alabama">>, <<"AK", "Alaska">>, <<"AZ", "Arizona">>,
      <<"AR", "Arkansas">>, <<"CA", "California">>, <<"CO", "Colorado">>,
      <<"CT", "Connecticut">>, <<"DE", "Delaware">>, <<"FL", "Florida">>,
      <<"GA", "Georgia">>, <<"HI", "Hawaii">>, <<"ID", "Idaho">>,
      <<"IL", "Illinois">>, <<"IN", "Indiana">>, <<"IA", "Iowa">>,
      <<"KS", "Kansas">>, <<"KY", "Kentucky">>, <<"LA", "Louisiana">>,
      <<"ME", "Maine">>, <<"MD", "Maryland">>, <<"MA", "Massachusetts">>,
      <<"MI", "Michigan">>, <<"MN", "Minnesota">>, <<"MS", "Mississippi">>,
      <<"MO", "Missouri">>, <<"MT", "Montana">>, <<"NE", "Nebraska">>,
      <<"NV", "Nevada">>, <<"NH", "New Hampshire">>, <<"NJ", "New Jersey">>,
      <<"NM", "New Mexico">>, <<"NY", "New York">>, <<"NC", "North Carolina">>,
      <<"ND", "North Dakota">>, <<"OH", "Ohio">>, <<"OK", "Oklahoma">>,
      <<"OR", "Oregon">>, <<"PA", "Pennsylvania">>, <<"RI", "Rhode Island">>,
      <<"SC", "South Carolina">>, <<"SD", "South Dakota">>, <<"TN", "Tennessee">>,
      <<"TX", "Texas">>, <<"UT", "Utah">>, <<"VT", "Vermont">>,
      <<"VA", "Virginia">>, <<"WA", "Washington">>, <<"WV", "West Virginia">>,
      <<"WI", "Wisconsin">>, <<"WY", "Wyoming">>
    >>

StateNamesUpper == [i \in 1..Len(STATE_MAP) |-> ToUpperCase(STATE_MAP[i][2])]

extractState(text) ==
    LET full == {i \in 1..Len(STATE_MAP) : Includes(text, StateNamesUpper[i])}
        abbr == {i \in 1..Len(text) :
                    /\ BoundaryAt(text, i) /\ Sub(text, i, i + 1) \in StateAbbrevs
                    /\ i + 1 <= Len(text) /\ BoundaryAt(text, i + 2)}
    IN  IF full # {} THEN Some(STATE_MAP[MinOf(full)][2])
        ELSE IF abbr # {}
        THEN LET m == Sub(text, MinOf(abbr), MinOf(abbr) + 1)
                 k == CHOOSE j \in 1..Len(STATE_MAP) : STATE_MAP[j][1] = m
             IN  Some(STATE_MAP[k][2])
        ELSE Null

\* the record of the regex parsers: name, first date, address, ID number, state
HeuristicRecord(text, lines) ==
    [name |-> extractName(lines),
     dateOfBirth |-> FirstDate(text),
     address |-> extractAddress(lines),
     idNumber |-> extractIDNumber(lines),
     state |-> extractState(ToUpperCase(text))]

---------------------------------------------------------------------------
(* MRZ detection and decoding *)

MrzChars == Upper \cup Digit \cup {"<"}

tesseract_MrzMinLen == 20
idParser_MrzMinLen == 30
MrzMaxLen == 44

\* MRZ_PATTERN.test(l.replace(/\s/g, '')) with /^[A-Z0-9<]{min,44}$/
IsMrzCandidate(l, min) ==
    LET t == RemoveAll(l, Space)
    IN  AllIn(t, MrzChars) /\ Len(t) >= min /\ Len(t) <= MrzMaxLen

\* lines.filter(l => MRZ_PATTERN.test(l.replace(/\s/g, ''))) in tesseractService.js
tesseract_mrzLines(lines) == SelectSeq(lines, LAMBDA l : IsMrzCandidate(l, tesseract_MrzMinLen))

\* the same filter in idParser.ts
idParser_mrzLines(lines) == SelectSeq(lines, LAMBDA l : IsMrzCandidate(l, idParser_MrzMinLen))

\* how many MRZ candidates must exist for MRZ decoding to run (tesseractService.js)
tesseract_MrzLinesNeeded == 2

\* the same threshold in idParser.ts (`if (mrzLines.length < 2) return null`)
idParser_MrzLinesNeeded == 2

DigitVal(c) == (CHOOSE i \in 1..10 : DigitStr[i] = c) - 1

\* parseInt of a two-digit string
ParseInt2(s) == 10 * DigitVal(Ch(s, 1)) + DigitVal(Ch(s, 2))

CenturyPivot == 30

\* the rule with the pivot year itself counted to the 1900s
FullYear_pivotInclusive(year) == IF year >= CenturyPivot THEN 1900 + year ELSE 2000 + year

\* year > 30 ? 1900 + year : 2000 + year
FullYear(year) == IF year > CenturyPivot THEN 1900 + year ELSE 2000 + year

\* /^\d{6}$/
IsSixDigits(s) == Len(s) = 6 /\ AllIn(s, Digit)

\* `${month}/${day}/${fullYear}` of a six-digit YYMMDD
SlashDate(s) == Sub(s, 3, 4) \o "/" \o Sub(s, 5, 6) \o "/" \o NatToString(FullYear(ParseInt2(s)))

\* convertMrzDate of tesseractService.js, on a nullable string
tesseract_convertMrzDate(yymmdd) ==
    IF IsNull(yymmdd) \/ Val(yymmdd) = "" \/ ~IsSixDigits(Val(yymmdd)) THEN Null
    ELSE Some(SlashDate(Val(yymmdd)))

\* (x || '').replace(/</g, ' ').trim() on a nullable string
CleanName(x) == Trim(ReplaceAll(IF IsNull(x) THEN "" ELSE Val(x), "<", " "))

buildMrzName(fields) ==
    LET last == CleanName(fields.lastName)
        first == CleanName(fields.firstName)
    IN  OrNull(JoinWith(FilterBoolean(<<first, last>>), " "))

\* the parts taken from the whole of line 1
ManualNamePart_fromStart(line1, k) ==
    LET namePart == SplitOn(line1, "<<")
    IN  IF Len(namePart) >= k THEN Trim(ReplaceAll(namePart[k], "<", " ")) ELSE ""

\* namePart[k] of line1.substring(5).split('<<'), cleaned; '' when there is no such part
ManualNamePart(line1, k) ==
    LET namePart == SplitOn(Sub(line1, 6, Len(line1)), "<<")
    IN  IF Len(namePart) >= k THEN Trim(ReplaceAll(namePart[k], "<", " ")) ELSE ""

ManualDobMinLen == 6
DocNumberLen == 9

\* parseManualMRZ: the record, or Null for the TypeError of `mrzLines[1].replace`
\* on a list that has no second line
parseManualMRZ(mrzLines) ==
    IF Len(mrzLines) < 2 THEN Null
    ELSE
    LET line1 == RemoveAll(mrzLines[1], Space)
        line2 == RemoveAll(mrzLines[2], Space)
        lastName == ManualNamePart(line1, 1)
        firstName == ManualNamePart(line1, 2)
        dobRaw == Sub(line2, 1, 6)
    IN  Some([name |-> OrNull(JoinWith(FilterBoolean(<<firstName, lastName>>), " ")),
              dateOfBirth |-> IF Len(line2) >= ManualDobMinLen /\ IsSixDigits(dobRaw)
                              THEN Some(SlashDate(dobRaw)) ELSE Null,
              address |-> Null,
              idNumber |-> OrNull(RemoveAll(Sub(line2, 1, DocNumberLen), {"<"})),
              state |-> Null])

idParser_Line1MinLen == 30
idParser_DobMinLen == 20

\* parseMRZ of idParser.ts: Null when MRZ decoding does not apply
parseMRZ(lines) ==
    LET mrzLines == idParser_mrzLines(lines)
    IN  IF Len(mrzLines) < idParser_MrzLinesNeeded THEN Null
        ELSE LET line1 == RemoveAll(mrzLines[1], Space)
                 line2 == RemoveAll(mrzLines[2], Space)
                 lastName == ManualNamePart(line1, 1)
                 firstName == ManualNamePart(line1, 2)
                 dobRaw == Sub(line2, 1, 6)
             IN  IF Len(line1) >= idParser_Line1MinLen
                 THEN Some([name |-> OrNull(JoinWith(FilterBoolean(<<firstName, lastName>>), " ")),
                            dateOfBirth |->
                                IF Len(line2) >= idParser_DobMinLen /\ IsSixDigits(dobRaw)
                                THEN Some(NatToString(FullYear(ParseInt2(dobRaw))) \o "-"
                                          \o Sub(dobRaw, 3, 4) \o "-" \o Sub(dobRaw, 5, 6))
                                ELSE Null,
                            address |-> Null,
                            idNumber |-> OrNull(RemoveAll(Sub(line2, 1, DocNumberLen), {"<"})),
                            state |-> Null])
                 ELSE Null

\* all five structured fields are null: Object.values(data).every(v => v === null)
AllNull(data) ==
    /\ IsNull(data.name) /\ IsNull(data.dateOfBirth) /\ IsNull(data.address)
    /\ IsNull(data.idNumber) /\ IsNull(data.state)

---------------------------------------------------------------------------
(* OCR text the engines may produce *)

MrzLine1 == "P<UTOERIKSSON<<ANNA<MARIA<<<<<<<<<<<<<<<<<<<"
MrzLine2 == "7408122<<L898902C36UTO7408122F1204159ZE18422"

\* lines the recognized text is made of: MRZ lines of 44 characters, one of 24
\* characters with a blank inside (a candidate for tesseractService.js only, and
\* a line no parser finds a field in), and labelled fields
SampleLines ==
    {MrzLine1, MrzLine2, "IDUTO<<D2314 5890<<<<<<<<",
     "NAME: JOHN DOE", "ADDRESS: 123 MAIN ST", "ANYTOWN CA 94105", "DOB 01/02/1990"}

\* how many lines a recognized text holds at most
MaxLines == 2

\* a whole card: an address line above two MRZ lines of 30 characters
SampleDocuments ==
    {JoinWith(<<"ADDRESS: 123 MAIN ST", "I<UTOD231458907<<<<<<<<<<<<<<<",
                "7408122F1204159UTO<<<<<<<<<<<6">>, "\n")}

\* the recognized texts: up to MaxLines lines joined by newlines, and the pages
Texts == {JoinWith(ls, "\n") : ls \in SeqsUpTo(SampleLines, MaxLines)} \cup SampleDocuments

ConfidenceFloor == 40

\* recognition confidences around the floor
Confidences == {39, 40, 95}

---------------------------------------------------------------------------
(* The optional structured MRZ decoder (package `mrz`) *)

\* what import('mrz') gives: a module with parse, one with default.parse only,
\* one with neither, or a failed import
MrzModules == {"parse", "defaultParse", "noParse", "missing"}

\* the value getMrzParse assigns to _mrzParse once the import has settled
ResolvedMrzParse(module) ==
    CASE module = "parse" -> "parse"
      [] module = "defaultParse" -> "parse"
      [] module = "noParse" -> "null"
      [] OTHER -> "false"

\* `if (_mrzParse) return _mrzParse;`: only a function is truthy
MrzParseMemoized(cur) == cur = "parse"

\* `return _mrzParse || null`
MrzParseResult(cur) == IF cur = "parse" THEN "parse" ELSE "null"

\* getMrzParse run to completion by one caller: the new _mrzParse, the value
\* returned and whether import('mrz') was started
getMrzParse(cur, module) ==
    IF MrzParseMemoized(cur)
    THEN [mrzParse |-> cur, ret |-> cur, imported |-> FALSE]
    ELSE [mrzParse |-> ResolvedMrzParse(module),
          ret |-> MrzParseResult(ResolvedMrzParse(module)),
          imported |-> TRUE]

NoMrzFields ==
    [firstName |-> Null, lastName |-> Null, birthDate |-> Null,
     documentNumber |-> Null, issuingState |-> Null, sex |-> Null]

\* results of the decoder: `valid` and `fields` (possibly missing); `sex` stands
\* for the fields of the result that the adapter does not read
MrzParseResults ==
    {[valid |-> TRUE,
      fields |-> Some([firstName |-> Some("ANNA MARIA"), lastName |-> Some("ERIKSSON"),
                       birthDate |-> Some("740812"), documentNumber |-> Some("L898902C3"),
                       issuingState |-> Some("UTO"), sex |-> Some("female")])],
     [valid |-> FALSE, fields |-> Some(NoMrzFields)],
     [valid |-> FALSE, fields |-> Null],
     [valid |-> TRUE, fields |-> Null],
     [valid |-> FALSE, fields |-> Some([NoMrzFields EXCEPT !.sex = Some("male")])],
     [valid |-> FALSE,
      fields |-> Some([NoMrzFields EXCEPT !.birthDate = Some("7408"),
                                          !.documentNumber = Some("<<<")])]}

\* Object.values(fields).some(Boolean)
SomeField(fields) == \E k \in DOMAIN fields : ~IsNull(fields[k]) /\ Val(fields[k]) # ""

\* only a result that reports validity is taken
MrzResultAccepted_validOnly(valid, fields) == valid

\* mrzResult.valid || Object.values(fields).some(Boolean)
MrzResultAccepted(valid, fields) == valid \/ SomeField(fields)

\* the record built from the decoder's fields; the address comes from the regex parser
StructuredRecord(fields, address) ==
    [name |-> buildMrzName(fields),
     dateOfBirth |-> tesseract_convertMrzDate(fields.birthDate),
     address |-> address,
     idNumber |-> IF ~IsNull(fields.documentNumber) /\ Val(fields.documentNumber) # ""
                  THEN Some(RemoveAll(Val(fields.documentNumber), {"<"})) ELSE Null,
     state |-> OrElse(fields.issuingState, Null)]

---------------------------------------------------------------------------
(* backend/services/tesseractService.js *)

\* a gate without the confidence floor
tesseract_gateRejects_noFloor(confidence, data) == AllNull(data)

\* `if (confidence < 40 || allNull) throw`
tesseract_gateRejects(confidence, data) == confidence < ConfidenceFloor \/ AllNull(data)

\* an MRZ test that one candidate line satisfies
tesseract_mrzPresent_one(mrzLines) == Len(mrzLines) >= 1

\* `if (mrzLines.length >= 2)`
tesseract_mrzPresent(mrzLines) == Len(mrzLines) >= tesseract_MrzLinesNeeded

\* what scanWithTesseract derives from the recognized text alone: the number of
\* MRZ candidates, the address for the structured record, and the record the
\* manual MRZ parser or the regex parsers build (Null: the parser throws)
TesseractText(text) ==
    LET lines == LinesOf(text)
        mrzLines == tesseract_mrzLines(lines)
        mrz == tesseract_mrzPresent(mrzLines)
    IN  [candidates |-> Len(mrzLines), mrz |-> mrz,
         address |-> IF mrz THEN extractAddress(lines) ELSE Null,
         unstructured |-> IF mrz THEN parseManualMRZ(mrzLines)
                          ELSE Some(HeuristicRecord(text, lines))]

\* scanWithTesseract from the recognized text on. `lib` is what the decoder does
\* when it is called: Null when it throws, else its result. `steps` lists the
\* decoding routines that ran.
TesseractOutcome(text, confidence, cur, module, lib) ==
    LET t == parsed.tesseract[text]
        got == getMrzParse(cur, module)
        called == t.mrz /\ got.ret = "parse"
        fields == IF called /\ ~IsNull(lib) /\ ~IsNull(Val(lib).fields)
                  THEN Val(Val(lib).fields) ELSE NoMrzFields
        structured == called /\ ~IsNull(lib) /\ MrzResultAccepted(Val(lib).valid, fields)
        built == IF structured THEN Some(StructuredRecord(fields, t.address))
                 ELSE t.unstructured
        steps == IF ~t.mrz THEN <<"regex">>
                 ELSE <<"getMrzParse">> \o (IF called THEN <<"parse">> ELSE <<>>)
                      \o (IF structured THEN <<>> ELSE <<"parseManualMRZ">>)
        rejected == IsNull(built) \/ tesseract_gateRejects(confidence, Val(built))
    IN  [call |-> [pc |-> "done", op |-> "scanWithTesseract", text |-> text,
                   confidence |-> confidence, steps |-> steps,
                   candidates |-> t.candidates, lib |-> lib,
                   built |-> built,
                   outcome |-> IF rejected THEN "threw" ELSE "returned",
                   data |-> IF rejected THEN Null ELSE built,
                   rawText |-> IF rejected THEN Null ELSE Some(text)],
         mrzParse |-> IF t.mrz THEN got.mrzParse ELSE cur,
         imported |-> t.mrz /\ got.imported]

\* what the decoder may do in a call: nothing to choose when it is not called
ParseBehaviours(text, cur, module) ==
    IF /\ parsed.tesseract[text].mrz
       /\ getMrzParse(cur, module).ret = "parse"
    THEN {Null} \cup {Some(r) : r \in MrzParseResults}
    ELSE {Null}

\* a call that ends before any text is recognized
TesseractFailure(why) ==
    [pc |-> "done", op |-> "scanWithTesseract", text |-> "", confidence |-> 0,
     steps |-> <<>>, candidates |-> 0, lib |-> Null, built |-> Null, outcome |-> "threw",
     data |-> Null, rawText |-> Null, error |-> why]

initWorker ==
    /\ call.pc = "idle"
    /\ ~worker
    /\ worker' = TRUE
    /\ UNCHANGED <<call, _mrzParse, mrzModule, textractClient, env,
                   reqPc, reqRet, imports, resolutionFailed, parsed, app>>

scanWithTesseract ==
    /\ call.pc = "idle"
    /\ \/ /\ ~worker
          /\ call' = TesseractFailure("Tesseract worker not initialized")
          /\ UNCHANGED _mrzParse
       \/ /\ worker
          /\ call' = TesseractFailure("recognize failed")
          /\ UNCHANGED _mrzParse
       \/ /\ worker
          /\ \E text \in Texts, confidence \in Confidences :
             \E lib \in ParseBehaviours(text, _mrzParse, mrzModule) :
               LET out == TesseractOutcome(text, confidence, _mrzParse, mrzModule, lib)
               IN  /\ call' = out.call
                   /\ _mrzParse' = out.mrzParse
    /\ UNCHANGED <<worker, mrzModule, textractClient, env,
                   reqPc, reqRet, imports, resolutionFailed, parsed, app>>

---------------------------------------------------------------------------
(* app/utils/idParser.ts *)

\* what parseIDText derives from the text: the number of MRZ candidates, the
\* parsers that ran, and the MRZ record when parseMRZ gives one, else that of
\* the regex parsers
IdParserText(ocrText) ==
    LET lines == LinesOf(ocrText)
        mrzData == parseMRZ(lines)
    IN  [candidates |-> Len(idParser_mrzLines(lines)),
         steps |-> IF IsNull(mrzData) THEN <<"regex">> ELSE <<"parseMRZ">>,
         data |-> IF IsNull(mrzData) THEN Some(HeuristicRecord(ocrText, lines)) ELSE mrzData]

\* parseIDText: the record with the text as rawText
ParseIDTextOutcome(ocrText) ==
    LET t == parsed.idParser[ocrText]
    IN  [pc |-> "done", op |-> "parseIDText", text |-> ocrText,
         candidates |-> t.candidates, steps |-> t.steps,
         outcome |-> "returned", data |-> t.data, rawText |-> Some(ocrText)]

parseIDText ==
    /\ call.pc = "idle"
    /\ \E ocrText \in Texts : call' = ParseIDTextOutcome(ocrText)
    /\ UNCHANGED <<worker, _mrzParse, mrzModule, textractClient, env,
                   reqPc, reqRet, imports, resolutionFailed, parsed, app>>

---------------------------------------------------------------------------
(* The typed field bag of the cloud service (Textract AnalyzeID)           *)

\* the field types the two mappings read, and one they do not
FieldKeys == {"FIRST_NAME", "MIDDLE_NAME", "LAST_NAME", "SURNAME", "NAME",
              "DATE_OF_BIRTH", "EXPIRATION_DATE", "ADDRESS", "CITY_IN_ADDRESS",
              "STATE_IN_ADDRESS", "ZIP_CODE_IN_ADDRESS", "COUNTY",
              "DOCUMENT_NUMBER", "ID_NUMBER", "STATE_NAME", "STATE",
              "PLACE_OF_BIRTH", "CLASS"}

\* a value the service may report for a field type
SampleValue(k) ==
    CASE k = "FIRST_NAME" -> "JANE"
      [] k = "MIDDLE_NAME" -> "Q"
      [] k = "LAST_NAME" -> "DOE"
      [] k = "SURNAME" -> "ROE"
      [] k = "NAME" -> "JANE DOE"
      [] k = "DATE_OF_BIRTH" -> "01/02/1990"
      [] k = "EXPIRATION_DATE" -> "03/04/2030"
      [] k = "ADDRESS" -> "123 MAIN ST"
      [] k = "CITY_IN_ADDRESS" -> "ANYTOWN"
      [] k = "STATE_IN_ADDRESS" -> "CA"
      [] k = "ZIP_CODE_IN_ADDRESS" -> "94105"
      [] k = "COUNTY" -> "MARIN"
      [] k = "DOCUMENT_NUMBER" -> "D1234567"
      [] k = "ID_NUMBER" -> "X7654321"
      [] k = "STATE_NAME" -> "CALIFORNIA"
      [] k = "STATE" -> "CA"
      [] k = "PLACE_OF_BIRTH" -> "OHIO"
      [] OTHER -> "C"

\* one IdentityDocumentField: Type.Text, ValueDetection.Text and
\* ValueDetection.Confidence (in tenths of a percent), each possibly missing
SampleEntries ==
    {[key |-> Some(k), value |-> Some(SampleValue(k)), confidence |-> Some(995)] : k \in FieldKeys}
    \cup {[key |-> Some("FIRST_NAME"), value |-> Some(""), confidence |-> Some(120)],
          [key |-> Some("LAST_NAME"), value |-> Null, confidence |-> Null],
          [key |-> Null, value |-> Some("JANE"), confidence |-> Some(500)],
          [key |-> Some("LAST_NAME"), value |-> Some("POE"), confidence |-> Null]}

\* how many fields a response of the cloud service holds at most
MaxFields == 2

\* result.IdentityDocuments: missing, or documents with their fields
TextractResults ==
    {Null} \cup {Some(<<>>)} \cup {Some(<<es>>) : es \in SeqsUpTo(SampleEntries, MaxFields)}
    \cup {Some(<<<<e>>, <<f>>>>) : e \in SampleEntries, f \in {g \in SampleEntries : g.confidence = Null}}

\* `for doc of result.IdentityDocuments || []`, `for field of doc`: all fields in order
RECURSIVE Flatten(_)
Flatten(docs) == IF Len(docs) = 0 THEN <<>> ELSE Head(docs) \o Flatten(Tail(docs))

AllEntries(result) == IF IsNull(result) THEN <<>> ELSE Flatten(Val(result))

\* `if (key && value)`
Kept(e) == ~IsNull(e.key) /\ Val(e.key) # "" /\ ~IsNull(e.value) /\ Val(e.value) # ""

RECURSIVE CollectFields(_, _)
\* `fields[key] = value` over the kept entries: a later entry overwrites an earlier
\* one; a field type that is not set reads as "" (undefined is falsy like "")
CollectFields(entries, acc) ==
    IF Len(entries) = 0 THEN acc
    ELSE LET e == Head(entries)
         IN  CollectFields(Tail(entries),
                 IF Kept(e) THEN [acc EXCEPT ![Val(e.key)] = Val(e.value)] ELSE acc)

NoFields == [k \in FieldKeys |-> ""]

\* `${key}: ${value} (${confidence?.toFixed(1)}%)`
RawPart(e) ==
    Val(e.key) \o ": " \o Val(e.value) \o " ("
    \o (IF IsNull(e.confidence) THEN "undefined" ELSE ToFixed1(Val(e.confidence))) \o "%)"

RECURSIVE CollectRawParts(_)
CollectRawParts(entries) ==
    IF Len(entries) = 0 THEN <<>>
    ELSE (IF Kept(Head(entries)) THEN <<RawPart(Head(entries))>> ELSE <<>>)
         \o CollectRawParts(Tail(entries))

\* JS a || b on strings
Or(a, b) == IF a # "" THEN a ELSE b

---------------------------------------------------------------------------
(* backend/server.js *)

server_buildAddress(fields) ==
    LET street == fields["ADDRESS"]
        city == fields["CITY_IN_ADDRESS"]
        state == fields["STATE_IN_ADDRESS"]
        zip == fields["ZIP_CODE_IN_ADDRESS"]
        county == fields["COUNTY"]
        parts == FilterBoolean(<<street, city, county, state>>)
        line == JoinWith(parts, ", ")
    IN  OrNull(IF zip # "" THEN line \o " " \o zip ELSE line)

server_buildName(fields) ==
    LET first == fields["FIRST_NAME"]
        middle == fields["MIDDLE_NAME"]
        last == Or(fields["LAST_NAME"], fields["SURNAME"])
        full == JoinWith(FilterBoolean(<<first, middle, last>>), " ")
    IN  OrNull(Or(full, fields["NAME"]))

\* server.js: "Map Textract field names to our schema"
server_parsedData(fields) ==
    [name |-> server_buildName(fields),
     dateOfBirth |-> OrNull(Or(fields["DATE_OF_BIRTH"], fields["EXPIRATION_DATE"])),
     address |-> IF fields["ADDRESS"] # "" THEN Some(fields["ADDRESS"])
                 ELSE server_buildAddress(fields),
     idNumber |-> OrNull(Or(fields["DOCUMENT_NUMBER"], fields["ID_NUMBER"])),
     state |-> OrNull(Or(fields["STATE_NAME"], Or(fields["STATE"], fields["PLACE_OF_BIRTH"])))]

\* res.json of the success path
server_successResponse(parsedData, rawParts) ==
    [status |-> 200,
     body |-> [success |-> TRUE, data |-> parsedData, rawText |-> JoinWith(rawParts, "\n")]]

\* a catch block that also sends the record it had started
server_failureResponse_withData(message) ==
    [status |-> 500,
     body |-> [error |-> "Failed to process image", message |-> message,
               data |-> [name |-> Null, dateOfBirth |-> Null, address |-> Null,
                         idNumber |-> Null, state |-> Null]]]

\* the catch block: res.status(500).json({error, message})
server_failureResponse(message) ==
    [status |-> 500, body |-> [error |-> "Failed to process image", message |-> message]]

\* what the request carries
RequestKinds == {"file", "bodyImage", "none"}

\* error messages of sharp and of the Textract client
SharpErrors == {"Input buffer contains unsupported image format"}
SendErrors == {"The security token included in the request is invalid", "socket hang up"}

Idle == [pc |-> "idle"]

\* app.post('/api/scan'): the whole handler for one request. `attempts` lists the
\* backends invoked with their outcome, `responses` what was sent on res, `fields`
\* the field bag collected from the service's answer.
ApiScanOutcome(req, sharpError, sendError, result) ==
    IF req = "none"
    THEN [pc |-> "done", op |-> "apiScan", req |-> req, fields |-> NoFields,
          attempts |-> <<>>,
          responses |-> <<[status |-> 400, body |-> [error |-> "No image provided"]]>>]
    ELSE IF ~IsNull(sharpError)
    THEN [pc |-> "done", op |-> "apiScan", req |-> req, fields |-> NoFields,
          attempts |-> <<>>,
          responses |-> <<server_failureResponse(Val(sharpError))>>]
    ELSE IF ~IsNull(sendError)
    THEN [pc |-> "done", op |-> "apiScan", req |-> req, fields |-> NoFields,
          attempts |-> <<[backend |-> "textract", ok |-> FALSE]>>,
          responses |-> <<server_failureResponse(Val(sendError))>>]
    ELSE LET entries == AllEntries(result)
             fields == CollectFields(entries, NoFields)
         IN  [pc |-> "done", op |-> "apiScan", req |-> req, fields |-> fields,
              attempts |-> <<[backend |-> "textract", ok |-> TRUE]>>,
              responses |-> <<server_successResponse(server_parsedData(fields),
                                                      CollectRawParts(entries))>>]

ApiScan ==
    /\ call.pc = "idle"
    /\ \E req \in RequestKinds :
         \/ /\ req = "none"
            /\ call' = ApiScanOutcome(req, Null, Null, Null)
         \/ /\ req # "none"
            /\ \E e \in SharpErrors : call' = ApiScanOutcome(req, Some(e), Null, Null)
         \/ /\ req # "none"
            /\ \E e \in SendErrors : call' = ApiScanOutcome(req, Null, Some(e), Null)
         \/ /\ req # "none"
            /\ \E result \in TextractResults : call' = ApiScanOutcome(req, Null, Null, result)
    /\ UNCHANGED <<worker, _mrzParse, mrzModule, textractClient, env,
                   reqPc, reqRet, imports, resolutionFailed, parsed, app>>

\* the caller has its answer; the process is ready for the next operation
Return ==
    /\ call.pc = "done"
    /\ call' = Idle
    /\ UNCHANGED <<worker, _mrzParse, mrzModule, textractClient, env,
                   reqPc, reqRet, imports, resolutionFailed, parsed, app>>

---------------------------------------------------------------------------
(* backend/services/textractService.js *)

\* available as soon as the access key id is set
isAvailable_accessKeyOnly == env.AWS_ACCESS_KEY_ID

isAvailable == env.AWS_ACCESS_KEY_ID /\ env.AWS_SECRET_ACCESS_KEY

initTextract ==
    /\ call.pc = "idle"
    /\ call' = [pc |-> "done", op |-> "initTextract"]
    /\ textractClient' = (IF isAvailable THEN TRUE ELSE textractClient)
    /\ UNCHANGED <<worker, _mrzParse, mrzModule, env,
                   reqPc, reqRet, imports, resolutionFailed, parsed, app>>

textract_buildAddress(fields) ==
    LET street == fields["ADDRESS"]
        city == fields["CITY_IN_ADDRESS"]
        state == fields["STATE_IN_ADDRESS"]
        zip == fields["ZIP_CODE_IN_ADDRESS"]
        county == fields["COUNTY"]
        parts == FilterBoolean(<<street, city, county, state>>)
        line == JoinWith(parts, ", ")
    IN  OrNull(IF zip # "" THEN line \o " " \o zip ELSE line)

textract_buildName(fields) ==
    LET first == fields["FIRST_NAME"]
        middle == fields["MIDDLE_NAME"]
        last == Or(fields["LAST_NAME"], fields["SURNAME"])
        full == JoinWith(FilterBoolean(<<first, middle, last>>), " ")
    IN  OrNull(Or(full, fields["NAME"]))

\* the `data` object of scanWithTextract
textract_data(fields) ==
    [name |-> textract_buildName(fields),
     dateOfBirth |-> OrNull(fields["DATE_OF_BIRTH"]),
     address |-> IF fields["ADDRESS"] # "" THEN Some(fields["ADDRESS"])
                 ELSE textract_buildAddress(fields),
     idNumber |-> OrNull(Or(fields["DOCUMENT_NUMBER"], fields["ID_NUMBER"])),
     state |-> OrNull(Or(fields["STATE_NAME"], Or(fields["STATE"], fields["PLACE_OF_BIRTH"])))]

\* `return { data, rawText: rawParts.join('\n') }`
textract_return(data, rawParts) ==
    [outcome |-> "returned", data |-> Some(data), rawText |-> Some(JoinWith(rawParts, "\n"))]

\* scanWithTextract for one image: `sent` tells whether AnalyzeID was requested
TextractOutcome(client, sendError, result) ==
    IF ~client
    THEN [pc |-> "done", op |-> "scanWithTextract", sent |-> FALSE, outcome |-> "threw",
          data |-> Null, rawText |-> Null,
          error |-> "Textract not initialized or AWS credentials not set"]
    ELSE IF ~IsNull(sendError)
    THEN [pc |-> "done", op |-> "scanWithTextract", sent |-> TRUE, outcome |-> "threw",
          data |-> Null, rawText |-> Null, error |-> Val(sendError)]
    ELSE LET entries == AllEntries(result)
             ret == textract_return(textract_data(CollectFields(entries, NoFields)),
                                    CollectRawParts(entries))
         IN  [pc |-> "done", op |-> "scanWithTextract", sent |-> TRUE,
              outcome |-> ret.outcome, data |-> ret.data, rawText |-> ret.rawText,
              error |-> ""]

scanWithTextract ==
    /\ call.pc = "idle"
    /\ \/ /\ ~textractClient
          /\ call' = TextractOutcome(textractClient, Null, Null)
       \/ /\ textractClient
          /\ \E e \in SendErrors : call' = TextractOutcome(textractClient, Some(e), Null)
       \/ /\ textractClient
          /\ \E result \in TextractResults : call' = TextractOutcome(textractClient, Null, result)
    /\ UNCHANGED <<worker, _mrzParse, mrzModule, textractClient, env,
                   reqPc, reqRet, imports, resolutionFailed, parsed, app>>

---------------------------------------------------------------------------
(* app/utils/ocr.ts, app/scan.tsx, app/context/ScanContext.tsx *)

\* the app after launch: the home screen is shown and has cleared the shared
\* record, no navigation is scheduled
AppStart ==
    [route |-> "index", state |-> "camera", errorMsg |-> "", scannedData |-> Null,
     timers |-> 0]

\* answers of the cloud service behind the requests of the app
ClientResults == {Null} \cup {Some(<<<<e>>>>) : e \in SampleEntries}

\* what `await fetch(...)` of scanID gives: a rejection (Null), the response of
\* the /api/scan handler to a request with the image in its body, or the
\* answer of a gateway in front of it, whose body is not JSON
FetchOutcomes ==
    {Null}
    \cup {Some([status |-> r.status, body |-> Some(r.body)]) :
            r \in {ApiScanOutcome("bodyImage", Null, Null, result).responses[1] :
                      result \in ClientResults}
                  \cup {ApiScanOutcome("bodyImage", Some(e), Null, Null).responses[1] :
                          e \in SharpErrors}
                  \cup {ApiScanOutcome("bodyImage", Null, Some(e), Null).responses[1] :
                          e \in SendErrors}}
    \cup {Some([status |-> 502, body |-> Null])}

\* response.ok
ResponseOk(response) == response.status \in 200..299

\* scanID of ocr.ts on what fetch gave
scanID(fetched) ==
    IF IsNull(fetched)
    THEN [outcome |-> "threw", data |-> Null, error |-> "Network request failed"]
    ELSE LET response == Val(fetched)
         IN  IF IsNull(response.body)
             THEN [outcome |-> "threw", data |-> Null, error |-> "SyntaxError"]
             ELSE IF ~ResponseOk(response)
             THEN LET error == Val(response.body)
                  IN  [outcome |-> "threw", data |-> Null,
                       error |-> IF "message" \in DOMAIN error /\ error.message # ""
                                 THEN error.message ELSE "Failed to scan ID"]
             ELSE LET result == Val(response.body)
                  IN  [outcome |-> "returned",
                       data |-> Some([name |-> result.data.name,
                                      dateOfBirth |-> result.data.dateOfBirth,
                                      address |-> result.data.address,
                                      idNumber |-> result.data.idNumber,
                                      state |-> result.data.state,
                                      rawText |-> result.rawText]),
                       error |-> ""]

\* processImage that stores the record before it looks at its fields
processImage_storesFirst(c, scan) ==
    IF scan.outcome = "threw"
    THEN [c EXCEPT !.state = "error",
                   !.errorMsg = "Failed to process image. Please try again."]
    ELSE LET parsedID == Val(scan.data)
         IN  IF /\ OrElse(parsedID.name, Null) = Null
                /\ OrElse(parsedID.dateOfBirth, Null) = Null
                /\ OrElse(parsedID.idNumber, Null) = Null
             THEN [c EXCEPT !.scannedData = Some(parsedID), !.state = "error",
                            !.errorMsg = "No text detected. Please try again with a clearer image."]
             ELSE [c EXCEPT !.scannedData = Some(parsedID), !.state = "success",
                            !.timers = @ + 1]

\* processImage of the scan screen from the end of `await scanID(uri)` on
processImage_resume(c, scan) ==
    IF scan.outcome = "threw"
    THEN [c EXCEPT !.state = "error",
                   !.errorMsg = "Failed to process image. Please try again."]
    ELSE LET parsedID == Val(scan.data)
         IN  IF /\ OrElse(parsedID.name, Null) = Null
                /\ OrElse(parsedID.dateOfBirth, Null) = Null
                /\ OrElse(parsedID.idNumber, Null) = Null
             THEN [c EXCEPT !.state = "error",
                            !.errorMsg = "No text detected. Please try again with a clearer image."]
             ELSE [c EXCEPT !.scannedData = Some(parsedID), !.state = "success",
                            !.timers = @ + 1]

\* the Scan button of the home screen: router.push('/scan') mounts the scan screen
pushScan ==
    /\ call.pc = "idle"
    /\ app.route = "index"
    /\ app' = [app EXCEPT !.route = "scan", !.state = "camera", !.errorMsg = ""]
    /\ UNCHANGED <<call, worker, _mrzParse, mrzModule, textractClient, env,
                   reqPc, reqRet, imports, resolutionFailed, parsed>>

\* takePhoto or pickImage with an image: processImage up to `await scanID(uri)`
processImage ==
    /\ call.pc = "idle"
    /\ app.route = "scan" /\ app.state = "camera"
    /\ app' = [app EXCEPT !.state = "processing", !.errorMsg = ""]
    /\ call' = [pc |-> "awaiting", op |-> "scanID", before |-> app]
    /\ UNCHANGED <<worker, _mrzParse, mrzModule, textractClient, env,
                   reqPc, reqRet, imports, resolutionFailed, parsed>>

\* scanID ends and processImage runs to its end; `before` is the app state when
\* processImage began, `scan` what scanID gave
scanIDSettles ==
    /\ call.pc = "awaiting" /\ call.op = "scanID"
    /\ \E fetched \in FetchOutcomes :
         LET scan == scanID(fetched)
         IN  /\ app' = processImage_resume(app, scan)
             /\ call' = [pc |-> "done", op |-> "processImage", before |-> call.before,
                         fetched |-> fetched, scan |-> scan]
    /\ UNCHANGED <<worker, _mrzParse, mrzModule, textractClient, env,
                   reqPc, reqRet, imports, resolutionFailed, parsed>>

\* the timeout of 1200 ms set by processImage fires: router.replace('/form')
navigateToForm ==
    /\ call.pc = "idle"
    /\ app.timers > 0
    /\ app' = [app EXCEPT !.route = "form", !.timers = @ - 1]
    /\ UNCHANGED <<call, worker, _mrzParse, mrzModule, textractClient, env,
                   reqPc, reqRet, imports, resolutionFailed, parsed>>

\* Try Again on the error view
retry ==
    /\ call.pc = "idle"
    /\ app.route = "scan" /\ app.state = "error"
    /\ app' = [app EXCEPT !.state = "camera", !.errorMsg = ""]
    /\ UNCHANGED <<call, worker, _mrzParse, mrzModule, textractClient, env,
                   reqPc, reqRet, imports, resolutionFailed, parsed>>

\* Cancel on the camera or error view, Back on the form: router.back() shows
\* the home screen, which stayed mounted
goBack ==
    /\ call.pc = "idle"
    /\ \/ app.route = "scan" /\ app.state \in {"camera", "error"}
       \/ app.route = "form"
    /\ app' = [app EXCEPT !.route = "index"]
    /\ UNCHANGED <<call, worker, _mrzParse, mrzModule, textractClient, env,
                   reqPc, reqRet, imports, resolutionFailed, parsed>>

\* Scan Again on the form: router.replace('/scan') mounts a new scan screen
rescan ==
    /\ call.pc = "idle"
    /\ app.route = "form"
    /\ app' = [app EXCEPT !.route = "scan", !.state = "camera", !.errorMsg = ""]
    /\ UNCHANGED <<call, worker, _mrzParse, mrzModule, textractClient, env,
                   reqPc, reqRet, imports, resolutionFailed, parsed>>

\* OK after the form was submitted: router.replace('/') mounts a new home
\* screen, whose effect calls clearData
submitted ==
    /\ call.pc = "idle"
    /\ app.route = "form"
    /\ app' = [app EXCEPT !.route = "index", !.scannedData = Null]
    /\ UNCHANGED <<call, worker, _mrzParse, mrzModule, textractClient, env,
                   reqPc, reqRet, imports, resolutionFailed, parsed>>

---------------------------------------------------------------------------
(* backend/services/easyocrService.js *)

\* convertMrzDate of easyocrService.js
easyocr_convertMrzDate(yymmdd) ==
    IF IsNull(yymmdd) \/ Val(yymmdd) = "" \/ ~IsSixDigits(Val(yymmdd)) THEN Null
    ELSE Some(SlashDate(Val(yymmdd)))

NoMrzBlock ==
    [surname |-> Null, given_names |-> Null, date_of_birth |-> Null,
     document_number |-> Null, country |-> Null, nationality |-> Null]

\* MRZ blocks the OCR service may report
MrzBlocks ==
    {[surname |-> Some("ERIKSSON"), given_names |-> Some("ANNA<MARIA"),
      date_of_birth |-> Some("740812"), document_number |-> Some("L898902C3"),
      country |-> Some("UTO"), nationality |-> Some("UTO")],
     NoMrzBlock,
     [NoMrzBlock EXCEPT !.date_of_birth = Some("74081"), !.document_number = Some("<<<")],
     [NoMrzBlock EXCEPT !.nationality = Some("UTO")]}

\* the record with the surname before the given names
easyocr_mrzRecord_surnameFirst(mrz) ==
    LET surname == CleanName(mrz.surname)
        givenNames == CleanName(mrz.given_names)
    IN  [name |-> OrNull(JoinWith(FilterBoolean(<<surname, givenNames>>), " ")),
         dateOfBirth |-> easyocr_convertMrzDate(mrz.date_of_birth),
         address |-> Null,
         idNumber |-> OrNull(Trim(RemoveAll(IF IsNull(mrz.document_number) THEN ""
                                            ELSE Val(mrz.document_number), {"<"}))),
         state |-> OrElse(mrz.country, OrElse(mrz.nationality, Null))]

\* the record of Path 1: the fields of the reported MRZ block
easyocr_mrzRecord(mrz) ==
    LET surname == CleanName(mrz.surname)
        givenNames == CleanName(mrz.given_names)
    IN  [name |-> OrNull(JoinWith(FilterBoolean(<<givenNames, surname>>), " ")),
         dateOfBirth |-> easyocr_convertMrzDate(mrz.date_of_birth),
         address |-> Null,
         idNumber |-> OrNull(Trim(RemoveAll(IF IsNull(mrz.document_number) THEN ""
                                            ELSE Val(mrz.document_number), {"<"}))),
         state |-> OrElse(mrz.country, OrElse(mrz.nationality, Null))]

\* `if (allNull) throw`
easyocr_gateRejects(confidence, data) == AllNull(data)

\* `confidence.toFixed(1)` of the first console.log throws when confidence is missing
easyocr_logThrows(confidence) == IsNull(confidence)

\* the JSON bodies of a successful reply: raw_text, confidence, lines and mrz, each
\* possibly missing. Without an MRZ block the lines are those of the text.
OcrBodies ==
    {[success |-> TRUE, raw_text |-> Some(t), confidence |-> c,
      lines |-> Some(IF t = "" THEN <<>> ELSE SplitOn(t, "\n")), mrz |-> Null] :
        t \in Texts, c \in {Null, Some(30), Some(90)}}
    \cup {[success |-> TRUE, raw_text |-> r, confidence |-> c, lines |-> l, mrz |-> Some(m)] :
            r \in {Null, Some(""), Some(MrzLine1 \o "\n" \o MrzLine2)},
            c \in {Null, Some(30), Some(90)},
            l \in {Null, Some(<<MrzLine1, MrzLine2>>)},
            m \in MrzBlocks}
    \cup {[success |-> TRUE, raw_text |-> Null, confidence |-> Some(90),
           lines |-> Null, mrz |-> Null],
          [success |-> FALSE, raw_text |-> Null, confidence |-> Null,
           lines |-> Null, mrz |-> Null]}

\* `(ocrResult.lines || []).map(l => l.text)`
EasyLines(body) == IF IsNull(body.lines) THEN <<>> ELSE Val(body.lines)

\* the texts and lines the regex parsers of easyocrService.js are given
EasyRegexInputs ==
    {<<Val(body.raw_text), EasyLines(body)>> :
        body \in {b \in OcrBodies : IsNull(b.mrz) /\ ~IsNull(b.raw_text)}}

EasyFailure(why) ==
    [pc |-> "done", op |-> "scanWithEasyOCR", confidence |-> Null, steps |-> <<>>,
     serviceOk |-> FALSE, mrz |-> Null, built |-> Null, outcome |-> "threw",
     data |-> Null, rawText |-> Null, error |-> why]

\* scanWithEasyOCR once the service has answered HTTP ok with `body`
EasyOutcome(body) ==
    IF ~body.success THEN EasyFailure("Python OCR failed")
    ELSE IF easyocr_logThrows(body.confidence)
    THEN [EasyFailure("TypeError") EXCEPT !.serviceOk = TRUE, !.mrz = body.mrz,
             !.built = IF ~IsNull(body.mrz) THEN Some(easyocr_mrzRecord(Val(body.mrz)))
                       ELSE IF ~IsNull(body.raw_text)
                       THEN Some(parsed.easyocr[<<Val(body.raw_text), EasyLines(body)>>])
                       ELSE Null]
    ELSE IF IsNull(body.mrz) /\ IsNull(body.raw_text)
    THEN [EasyFailure("TypeError") EXCEPT !.serviceOk = TRUE, !.confidence = body.confidence]
    ELSE LET data == IF ~IsNull(body.mrz) THEN easyocr_mrzRecord(Val(body.mrz))
                     ELSE parsed.easyocr[<<Val(body.raw_text), EasyLines(body)>>]
             rejected == easyocr_gateRejects(body.confidence, data)
         IN  [pc |-> "done", op |-> "scanWithEasyOCR", confidence |-> body.confidence,
              steps |-> IF ~IsNull(body.mrz) THEN <<"mrz">> ELSE <<"regex">>,
              serviceOk |-> TRUE, mrz |-> body.mrz, built |-> Some(data),
              outcome |-> IF rejected THEN "threw" ELSE "returned",
              data |-> IF rejected THEN Null ELSE Some(data),
              rawText |-> IF rejected THEN Null ELSE body.raw_text,
              error |-> IF rejected THEN "EasyOCR quality too low" ELSE ""]

scanWithEasyOCR ==
    /\ call.pc = "idle"
    /\ \/ call' = EasyFailure("fetch failed")
       \/ call' = EasyFailure("Python OCR service error")
       \/ \E body \in OcrBodies : call' = EasyOutcome(body)
    /\ UNCHANGED <<worker, _mrzParse, mrzModule, textractClient, env,
                   reqPc, reqRet, imports, resolutionFailed, parsed, app>>

---------------------------------------------------------------------------
(* getMrzParse under concurrent scans: the await of import('mrz') lets other *)
(* callers run between the test of _mrzParse and its assignment             *)

\* how many scans reach the MRZ path
NumRequests == 3

Requests == 1..NumRequests

\* `if (_mrzParse) return _mrzParse;`, else `await import('mrz')` is started
MrzEnter(r) ==
    /\ reqPc[r] = "start"
    /\ IF MrzParseMemoized(_mrzParse)
       THEN /\ reqPc' = [reqPc EXCEPT ![r] = "done"]
            /\ reqRet' = [reqRet EXCEPT ![r] = _mrzParse]
            /\ UNCHANGED imports
       ELSE /\ reqPc' = [reqPc EXCEPT ![r] = "importing"]
            /\ imports' = imports + 1
            /\ UNCHANGED reqRet
    /\ UNCHANGED <<call, worker, _mrzParse, mrzModule, textractClient, env,
                   resolutionFailed, parsed, app>>

\* the import settles: _mrzParse is assigned and `_mrzParse || null` returned
MrzImportSettles(r) ==
    /\ reqPc[r] = "importing"
    /\ _mrzParse' = ResolvedMrzParse(mrzModule)
    /\ reqPc' = [reqPc EXCEPT ![r] = "done"]
    /\ reqRet' = [reqRet EXCEPT ![r] = MrzParseResult(ResolvedMrzParse(mrzModule))]
    /\ resolutionFailed' = (resolutionFailed \/ ResolvedMrzParse(mrzModule) # "parse")
    /\ UNCHANGED <<call, worker, mrzModule, textractClient, env, imports, parsed, app>>

---------------------------------------------------------------------------
(* Specifications *)

NoRequests == [r \in Requests |-> "none"]

\* the parsers' values, tabulated for the specifications that run them
NotParsed == [tesseract |-> <<>>, idParser |-> <<>>, easyocr |-> <<>>]

ParsedLocal(texts) ==
    [NotParsed EXCEPT !.tesseract = [text \in texts |-> TesseractText(text)],
                      !.idParser = [ocrText \in texts |-> IdParserText(ocrText)]]

ParsedEasyOCR(inputs) ==
    [NotParsed EXCEPT !.easyocr = [in \in inputs |-> HeuristicRecord(in[1], in[2])]]

\* server.js has started: it exits at startup unless both credentials are set
Init ==
    /\ call = Idle
    /\ app = AppStart
    /\ worker = FALSE
    /\ _mrzParse = "null"
    /\ mrzModule = "parse"
    /\ textractClient = FALSE
    /\ env = [AWS_ACCESS_KEY_ID |-> TRUE, AWS_SECRET_ACCESS_KEY |-> TRUE]
    /\ reqPc = NoRequests
    /\ reqRet = NoRequests
    /\ imports = 0
    /\ resolutionFailed = FALSE
    /\ parsed = NotParsed

Next == ApiScan \/ Return

\* the /api/scan handler of server.js, one request after another
Spec == Init /\ [][Next]_vars

\* the local adapter's process: any `mrz` package, worker not yet initialized
InitLocal ==
    /\ parsed = ParsedLocal(Texts)
    /\ call = Idle
    /\ app = AppStart
    /\ worker = FALSE
    /\ _mrzParse = "null"
    /\ mrzModule \in MrzModules
    /\ textractClient = FALSE
    /\ env = [AWS_ACCESS_KEY_ID |-> TRUE, AWS_SECRET_ACCESS_KEY |-> TRUE]
    /\ reqPc = NoRequests
    /\ reqRet = NoRequests
    /\ imports = 0
    /\ resolutionFailed = FALSE

NextLocal == initWorker \/ scanWithTesseract \/ parseIDText \/ Return

\* tesseractService.js and idParser.ts, one call after another
SpecLocal == InitLocal /\ [][NextLocal]_vars

NextEasyOCR == scanWithEasyOCR \/ Return

InitEasyOCR ==
    /\ call = Idle
    /\ app = AppStart
    /\ worker = FALSE
    /\ _mrzParse = "null"
    /\ mrzModule = "parse"
    /\ textractClient = FALSE
    /\ env = [AWS_ACCESS_KEY_ID |-> TRUE, AWS_SECRET_ACCESS_KEY |-> TRUE]
    /\ reqPc = NoRequests
    /\ reqRet = NoRequests
    /\ imports = 0
    /\ resolutionFailed = FALSE
    /\ parsed = ParsedEasyOCR(EasyRegexInputs)

\* easyocrService.js, one call after another
SpecEasyOCR == InitEasyOCR /\ [][NextEasyOCR]_vars

\* the cloud adapter's process: any combination of credentials
InitTextract ==
    /\ call = Idle
    /\ app = AppStart
    /\ worker = FALSE
    /\ _mrzParse = "null"
    /\ mrzModule = "parse"
    /\ textractClient = FALSE
    /\ env \in [AWS_ACCESS_KEY_ID : BOOLEAN, AWS_SECRET_ACCESS_KEY : BOOLEAN]
    /\ reqPc = NoRequests
    /\ reqRet = NoRequests
    /\ imports = 0
    /\ resolutionFailed = FALSE
    /\ parsed = NotParsed

NextTextract == initTextract \/ scanWithTextract \/ Return

\* textractService.js, one call after another
SpecTextract == InitTextract /\ [][NextTextract]_vars

\* the app on a device, with the /api/scan handler behind it
InitClient ==
    /\ call = Idle
    /\ app = AppStart
    /\ worker = FALSE
    /\ _mrzParse = "null"
    /\ mrzModule = "parse"
    /\ textractClient = FALSE
    /\ env = [AWS_ACCESS_KEY_ID |-> TRUE, AWS_SECRET_ACCESS_KEY |-> TRUE]
    /\ reqPc = NoRequests
    /\ reqRet = NoRequests
    /\ imports = 0
    /\ resolutionFailed = FALSE
    /\ parsed = NotParsed

NextClient ==
    pushScan \/ processImage \/ scanIDSettles \/ navigateToForm \/ retry \/ goBack
    \/ rescan \/ submitted \/ Return

\* the screens of the app, one user action or callback after another
SpecClient == InitClient /\ [][NextClient]_vars

\* concurrent scans that have each reached `await getMrzParse()`
InitMrz ==
    /\ call = Idle
    /\ app = AppStart
    /\ worker = TRUE
    /\ _mrzParse = "null"
    /\ mrzModule \in MrzModules
    /\ textractClient = FALSE
    /\ env = [AWS_ACCESS_KEY_ID |-> TRUE, AWS_SECRET_ACCESS_KEY |-> TRUE]
    /\ reqPc = [r \in Requests |-> "start"]
    /\ reqRet = NoRequests
    /\ imports = 0
    /\ resolutionFailed = FALSE
    /\ parsed = NotParsed

NextMrz == \E r \in Requests : MrzEnter(r) \/ MrzImportSettles(r)

SpecMrz == InitMrz /\ [][NextMrz]_vars

---------------------------------------------------------------------------
(* The parsing routines, each called on its own with inputs of its domain  *)

\* lines around both length limits of the MRZ patterns: every length from the
\* empty line to beyond the maximum, bare, with a blank inside, and with a
\* character outside the MRZ alphabet
PatternLines ==
    LET stock == MrzLine1 \o "<<"
    IN  UNION {{Sub(stock, 1, n),
                Sub(stock, 1, 2) \o " " \o Sub(stock, 3, n),
                Sub(stock, 1, n) \o "a"} : n \in 0..(MrzMaxLen + 2)}

\* the filter predicates of scanWithTesseract and of parseMRZ on one line
MrzPatternOutcome(line) ==
    [pc |-> "done", op |-> "MRZ_PATTERN", line |-> line,
     tesseract |-> IsMrzCandidate(line, tesseract_MrzMinLen),
     idParser |-> IsMrzCandidate(line, idParser_MrzMinLen)]

testMrzPattern ==
    /\ call.pc = "idle"
    /\ \E line \in PatternLines : call' = MrzPatternOutcome(line)
    /\ UNCHANGED <<worker, _mrzParse, mrzModule, textractClient, env,
                   reqPc, reqRet, imports, resolutionFailed, parsed, app>>

\* the places that turn a YYMMDD field into a date
DateSites ==
    {"tesseract_convertMrzDate", "easyocr_convertMrzDate", "parseManualMRZ", "parseMRZ"}

\* YYMMDD fields of every two-digit year, and fields that are not six digits
DateFields ==
    {DigitStr[a] \o DigitStr[b] \o "0812" : a, b \in 1..10}
        \cup {"", "74081", "7408122", "74O812", "<<<<<<", "ABCDEF"}

\* a second MRZ line that starts with the field
DateLine2(field) == Sub(field \o "<<<L898902C36UTO7408122F1204159ZE184226<<<<<", 1, MrzMaxLen)

\* the field as the place receives it and the date the place makes of it; the
\* MRZ parsers take the field from the front of the second line
DateOutcome(site, field) ==
    LET mrzLines == <<MrzLine1, DateLine2(field)>>
        onLine == site \in {"parseManualMRZ", "parseMRZ"}
    IN  [pc |-> "done", op |-> "convertMrzDate", site |-> site,
         input |-> IF onLine THEN Sub(mrzLines[2], 1, 6) ELSE field,
         result |-> CASE site = "tesseract_convertMrzDate" ->
                             tesseract_convertMrzDate(Some(field))
                      [] site = "easyocr_convertMrzDate" ->
                             easyocr_convertMrzDate(Some(field))
                      [] site = "parseManualMRZ" ->
                             Val(parseManualMRZ(mrzLines)).dateOfBirth
                      [] site = "parseMRZ" ->
                             Val(parseMRZ(mrzLines)).dateOfBirth]

convertMrzDate ==
    /\ call.pc = "idle"
    /\ \E site \in DateSites, field \in DateFields : call' = DateOutcome(site, field)
    /\ UNCHANGED <<worker, _mrzParse, mrzModule, textractClient, env,
                   reqPc, reqRet, imports, resolutionFailed, parsed, app>>

\* the two ways a text names a region, and what stands before the name
StateForms == {"name", "abbreviation"}
StateFrames == {"", "STATE: "}

\* extractState on the upper-cased text that names region k of STATE_MAP
StateOutcome(k, form, frame) ==
    LET text == frame \o (IF form = "name" THEN StateNamesUpper[k] ELSE STATE_MAP[k][1])
    IN  [pc |-> "done", op |-> "extractState", region |-> k, form |-> form,
         text |-> text, result |-> extractState(text)]

callExtractState ==
    /\ call.pc = "idle"
    /\ \E k \in 1..Len(STATE_MAP), form \in StateForms, frame \in StateFrames :
         call' = StateOutcome(k, form, frame)
    /\ UNCHANGED <<worker, _mrzParse, mrzModule, textractClient, env,
                   reqPc, reqRet, imports, resolutionFailed, parsed, app>>

\* lines of an address block: the label alone, with a street, with the whole
\* address on the label's line, and in its short form; a city line with a
\* postal code; lines that belong to no address
AddressSampleLines ==
    {"ADDRESS:", "ADDRESS: 123 MAIN ST", "ADDRESS: 123 MAIN ST ANYTOWN CA 94105",
     "ADDR: 12 OAK AVE", "ANYTOWN CA 94105", "APT 4B", "DOB 01/02/1990"}

\* how many lines the texts given to extractAddress hold at most
MaxAddressLines == 3

\* extractAddress on the lines, with the addressLines it has collected
AddressOutcome(lines) ==
    [pc |-> "done", op |-> "extractAddress", lines |-> lines,
     addressLines |-> AddressScan(lines, 1, FALSE, <<>>),
     result |-> extractAddress(lines)]

callExtractAddress ==
    /\ call.pc = "idle"
    /\ \E lines \in SeqsUpTo(AddressSampleLines, MaxAddressLines) :
         call' = AddressOutcome(lines)
    /\ UNCHANGED <<worker, _mrzParse, mrzModule, textractClient, env,
                   reqPc, reqRet, imports, resolutionFailed, parsed, app>>

\* lines with ID-like tokens: an alphanumeric token of nine characters, digits
\* only, digits before an alphanumeric token, a token of thirteen characters,
\* a letter before eight digits, a labelled number, a keyword without a
\* number, and a line without any
IdSampleLines ==
    {"D1234567A", "123456789012", "12345678 AB123456C", "AB12CD34EF56G",
     "D12345678", "DL 51234", "LICENSE", "NAME: JOHN DOE"}

\* how many lines the texts given to extractIDNumber hold at most
MaxIdLines == 2

\* extractIDNumber on the lines, with what its first two passes find
IdNumberOutcome(lines) ==
    [pc |-> "done", op |-> "extractIDNumber", lines |-> lines,
     labelled |-> FirstSome([i \in 1..Len(lines) |-> KeywordId(lines[i])]),
     standalone |-> FirstSome([i \in 1..Len(lines) |-> LetterDigitsId(lines[i])]),
     result |-> extractIDNumber(lines)]

callExtractIDNumber ==
    /\ call.pc = "idle"
    /\ \E lines \in SeqsUpTo(IdSampleLines, MaxIdLines) : call' = IdNumberOutcome(lines)
    /\ UNCHANGED <<worker, _mrzParse, mrzModule, textractClient, env,
                   reqPc, reqRet, imports, resolutionFailed, parsed, app>>

\* MRZ lines the decoders are given: passport lines of 44 characters, a card
\* line of 30, and a second line with a blank inside whose first nine
\* characters are fillers
MrzDecodeLines ==
    {MrzLine1, MrzLine2, "I<UTOD231458907<<<<<<<<<<<<<<<",
     "<<<<<<<<<<UTO 7408122F1204159<<<<<"}

\* how many candidate lines the decoders are given at most
MaxMrzLines == 3

\* parseManualMRZ and parseMRZ on the same candidate lines
ManualMrzOutcome(mrzLines) ==
    [pc |-> "done", op |-> "parseManualMRZ", mrzLines |-> mrzLines,
     manual |-> parseManualMRZ(mrzLines), idParser |-> parseMRZ(mrzLines)]

callParseManualMRZ ==
    /\ call.pc = "idle"
    /\ \E mrzLines \in {ls \in SeqsUpTo(MrzDecodeLines, MaxMrzLines) : Len(ls) >= 2} :
         call' = ManualMrzOutcome(mrzLines)
    /\ UNCHANGED <<worker, _mrzParse, mrzModule, textractClient, env,
                   reqPc, reqRet, imports, resolutionFailed, parsed, app>>

\* pieces of a text: dates of the three shapes the patterns look for (1: day,
\* month and year in digits; 2: year first; 3: month by name), and a word
DateTokens ==
    {<<"01/02/1990", 1>>, <<"3-4-85", 1>>, <<"1990-01-02", 2>>, <<"2001/12/31", 2>>,
     <<"12 JAN 1990", 3>>, <<"5JUN99", 3>>, <<"EXPIRES", 0>>}

\* how many pieces a text given to extractAllDates holds at most
MaxDateTokens == 2

\* extractAllDates on the pieces joined by blanks, and the dateOfBirth the
\* regex parsers take from it
DatesOutcome(tokens) ==
    LET text == JoinWith([i \in 1..Len(tokens) |-> tokens[i][1]], " ")
    IN  [pc |-> "done", op |-> "extractAllDates", tokens |-> tokens, text |-> text,
         allDates |-> extractAllDates(text), dateOfBirth |-> FirstDate(text)]

callExtractAllDates ==
    /\ call.pc = "idle"
    /\ \E tokens \in SeqsUpTo(DateTokens, MaxDateTokens) : call' = DatesOutcome(tokens)
    /\ UNCHANGED <<worker, _mrzParse, mrzModule, textractClient, env,
                   reqPc, reqRet, imports, resolutionFailed, parsed, app>>

\* labelled name lines: the label, what separates it from the value, the value
NameLabels == {"NAME", "Name", "FULL NAME"}
NameSeparators == {": ", " ", ":"}
NameValues == {"JOHN DOE", "ANNA", "Mary-Jane O'Neil", "J0HN DOE", "X"}

\* extractName on the one line `label separator value`
NameOutcome(label, sep, value) ==
    [pc |-> "done", op |-> "extractName", label |-> label, value |-> value,
     line |-> label \o sep \o value,
     result |-> extractName(<<label \o sep \o value>>)]

callExtractName ==
    /\ call.pc = "idle"
    /\ \E label \in NameLabels, sep \in NameSeparators, value \in NameValues :
         call' = NameOutcome(label, sep, value)
    /\ UNCHANGED <<worker, _mrzParse, mrzModule, textractClient, env,
                   reqPc, reqRet, imports, resolutionFailed, parsed, app>>

InitParsers ==
    /\ call = Idle
    /\ app = AppStart
    /\ worker = FALSE
    /\ _mrzParse = "null"
    /\ mrzModule = "parse"
    /\ textractClient = FALSE
    /\ env = [AWS_ACCESS_KEY_ID |-> TRUE, AWS_SECRET_ACCESS_KEY |-> TRUE]
    /\ reqPc = NoRequests
    /\ reqRet = NoRequests
    /\ imports = 0
    /\ resolutionFailed = FALSE
    /\ parsed = NotParsed

NextParsers ==
    testMrzPattern \/ convertMrzDate \/ callExtractState \/ callExtractAddress
    \/ callExtractIDNumber \/ callParseManualMRZ \/ callExtractAllDates
    \/ callExtractName \/ Return

\* the parsing routines of the adapters and of idParser.ts, one call after another
SpecParsers == InitParsers /\ [][NextParsers]_vars

---------------------------------------------------------------------------
(* The awaited backend calls and their time limits                         *)

HealthTimeoutMs == 3000
OcrTimeoutMs == 30000

\* the calls a scan awaits, each with the AbortSignal.timeout it is given
\* (Null: the call is awaited without any)
BackendCalls ==
    {[op |-> "worker.recognize", timeout |-> Null],
     [op |-> "fetch /health", timeout |-> Some(HealthTimeoutMs)],
     [op |-> "fetch /ocr", timeout |-> Some(OcrTimeoutMs)],
     [op |-> "textract.send", timeout |-> Null]}

\* the step of the clock, and how long a call without time limit is followed
TickMs == 1000
MaxWaitMs == 60000

\* the code reaches the await of a backend call
awaitBackend ==
    /\ call.pc = "idle"
    /\ \E c \in BackendCalls :
         call' = [pc |-> "awaiting", op |-> c.op, timeout |-> c.timeout, elapsed |-> 0]
    /\ UNCHANGED <<worker, _mrzParse, mrzModule, textractClient, env,
                   reqPc, reqRet, imports, resolutionFailed, parsed, app>>

\* time passes while the call is pending, up to its time limit
Tick ==
    /\ call.pc = "awaiting"
    /\ call.elapsed < (IF IsNull(call.timeout) THEN MaxWaitMs ELSE Val(call.timeout))
    /\ call' = [call EXCEPT !.elapsed = @ + TickMs]
    /\ UNCHANGED <<worker, _mrzParse, mrzModule, textractClient, env,
                   reqPc, reqRet, imports, resolutionFailed, parsed, app>>

\* the backend answers or fails: the awaited promise settles
backendSettles ==
    /\ call.pc = "awaiting"
    /\ \E outcome \in {"resolved", "rejected"} :
         call' = [pc |-> "done", op |-> call.op, timeout |-> call.timeout,
                  outcome |-> outcome]
    /\ UNCHANGED <<worker, _mrzParse, mrzModule, textractClient, env,
                   reqPc, reqRet, imports, resolutionFailed, parsed, app>>

\* AbortSignal.timeout aborts the fetch: the awaited promise rejects
timeoutFires ==
    /\ call.pc = "awaiting"
    /\ ~IsNull(call.timeout)
    /\ call.elapsed >= Val(call.timeout)
    /\ call' = [pc |-> "done", op |-> call.op, timeout |-> call.timeout,
                outcome |-> "TimeoutError"]
    /\ UNCHANGED <<worker, _mrzParse, mrzModule, textractClient, env,
                   reqPc, reqRet, imports, resolutionFailed, parsed, app>>

NextBackend == awaitBackend \/ Tick \/ backendSettles \/ timeoutFires \/ Return

\* the backend calls of a scan: the clock runs, a due time limit fires and the
\* caller goes on; nothing obliges a backend to answer
SpecBackend ==
    /\ InitParsers /\ [][NextBackend]_vars
    /\ WF_vars(Tick) /\ WF_vars(timeoutFires) /\ WF_vars(Return)

---------------------------------------------------------------------------
(* Claims *)

\* the requests that ended: /api/scan, and calls of each adapter and of parseIDText
ApiScanDone == call.pc = "done" /\ call.op = "apiScan"
TesseractDone == call.pc = "done" /\ call.op = "scanWithTesseract"
EasyOCRDone == call.pc = "done" /\ call.op = "scanWithEasyOCR"
TextractDone == call.pc = "done" /\ call.op = "scanWithTextract"
ParseIDTextDone == call.pc = "done" /\ call.op = "parseIDText"

\* the priority order of the backends
Priority == <<"tesseract", "easyocr", "textract">>

\* C1: for a scan request the backends are tried in priority order (tesseract,
\* easyocr, textract): the attempts made are the first backends of that order,
\* each attempt but the last one failed, and the request fails only after the
\* last backend of the order was tried.
C1_BackendsTriedInPriorityOrder ==
    (ApiScanDone /\ call.attempts # <<>>) =>
        LET n == Len(call.attempts)
        IN  /\ n <= Len(Priority)
            /\ \A i \in 1..n :
                 /\ call.attempts[i].backend = Priority[i]
                 /\ (i < n => ~call.attempts[i].ok)
            /\ (~call.attempts[n].ok => n = Len(Priority))

\* the responses of a finished request that report success
SuccessResponses == {i \in DOMAIN call.responses : call.responses[i].status = 200}

\* C2: no record whose five fields are all null is returned to the caller: a
\* success response of /api/scan never carries an all-null record.
C2_NoAllNullRecordReturned ==
    ApiScanDone => \A i \in SuccessResponses : ~AllNull(call.responses[i].body.data)

\* C3: when no attempted backend succeeded, the request ends with exactly one
\* response, a failure that carries neither a record nor a success flag.
C3_SingleFailureWithoutData ==
    (ApiScanDone /\ \A i \in DOMAIN call.attempts : ~call.attempts[i].ok) =>
        /\ Len(call.responses) = 1
        /\ call.responses[1].status >= 400
        /\ "error" \in DOMAIN call.responses[1].body
        /\ DOMAIN call.responses[1].body \cap {"data", "success", "rawText"} = {}

\* a request whose only backend attempt failed, answered with status 500
C3_Witness ==
    /\ ApiScanDone
    /\ call.attempts = <<[backend |-> "textract", ok |-> FALSE]>>
    /\ Len(call.responses) = 1
    /\ call.responses[1].status = 500

\* C4: every success response carries one record and, next to it, a provenance
\* tag that names the backend which produced the record.
C4_SuccessCarriesProvenance ==
    ApiScanDone =>
        \A i \in SuccessResponses :
            LET body == call.responses[i].body
            IN  /\ "data" \in DOMAIN body
                /\ \E k \in DOMAIN body \ {"success", "data", "rawText"} :
                      body[k] \in {Priority[j] : j \in DOMAIN Priority}

\* C5: whenever an adapter call returns instead of throwing, the rawText it
\* returns is a non-empty string.
C5_RawTextNonEmptyOnSuccess ==
    ((TesseractDone \/ EasyOCRDone \/ TextractDone) /\ call.outcome = "returned") =>
        (~IsNull(call.rawText) /\ Val(call.rawText) # "")

\* C6: once the worker has recognized the image, scanWithTesseract returns the
\* record it built if and only if the confidence is at least 40 and some field
\* of the record is non-null; otherwise it throws and returns no record.
C6_TesseractReturnsIffGatePassed ==
    (TesseractDone /\ ~IsNull(call.built)) =>
        /\ call.outcome = "returned" <=>
              (call.confidence >= 40 /\ ~AllNull(Val(call.built)))
        /\ call.outcome \in {"returned", "threw"}
        /\ call.outcome = "returned" => (call.data = call.built /\ ~IsNull(call.rawText))
        /\ call.outcome = "threw" => (IsNull(call.data) /\ IsNull(call.rawText))

\* a record with a non-null field returned at the confidence floor itself
C6_Witness ==
    /\ TesseractDone
    /\ call.confidence = 40
    /\ call.outcome = "returned"
    /\ ~AllNull(Val(call.data))

\* C7: when the OCR service answered HTTP ok with success true and the record
\* built has a non-null field, scanWithEasyOCR returns that record, whatever
\* the confidence is (below 40 and missing included).
C7_EasyOCRFailsOnlyWhenAllNull ==
    (EasyOCRDone /\ call.serviceOk /\ ~IsNull(call.built) /\ ~AllNull(Val(call.built))) =>
        (call.outcome = "returned" /\ call.data = call.built)

\* C8: once a resolution of the MRZ decoder has failed, no later step starts
\* the import again.
C8_NoImportAfterFailure == [][resolutionFailed => imports' = imports]_vars

\* C9: across concurrent scans the import is started at most once, and the
\* memoized decoder, once set, never changes.
C9_ImportedAtMostOnce ==
    [][imports' <= 1 /\ (_mrzParse # "null" => _mrzParse' = _mrzParse)]_vars

\* texts with exactly one MRZ candidate line
OneCandidateTexts == {MrzLine1, MrzLine2, "NAME: JOHN DOE\n" \o MrzLine2}

\* C10: with fewer than two MRZ candidate lines, scanWithTesseract and
\* parseIDText run no MRZ decoding, only the regex parsers, whose record is
\* the one built.
C10_MrzNeedsTwoCandidates ==
    /\ (TesseractDone /\ call.steps # <<>> /\ call.candidates < 2) =>
          /\ call.steps = <<"regex">>
          /\ call.text \in OneCandidateTexts =>
                call.built = Some(HeuristicRecord(call.text, LinesOf(call.text)))
    /\ (ParseIDTextDone /\ call.candidates < 2) =>
          /\ call.steps = <<"regex">>
          /\ call.text \in OneCandidateTexts =>
                Val(call.data) = HeuristicRecord(call.text, LinesOf(call.text))
    /\ (TesseractDone \/ ParseIDTextDone) =>
          ((\E i \in DOMAIN call.steps : call.steps[i] # "regex") => call.candidates >= 2)

\* scanWithTesseract returned the regex parsers' record for a text with one
\* MRZ candidate line
C10_Witness ==
    /\ TesseractDone
    /\ call.candidates = 1
    /\ call.steps = <<"regex">>
    /\ call.outcome = "returned"

\* the canonical rule for an MRZ candidate line: without its whitespace, only
\* A-Z, 0-9 and '<', and 20 to 44 characters
CanonicalMrzLine(line) ==
    LET t == RemoveAll(line, Space)
    IN  AllIn(t, MrzChars) /\ Len(t) >= 20 /\ Len(t) <= 44

CenturyYear(yy) == IF yy > 30 THEN 1900 + yy ELSE 2000 + yy

\* C12: at every place that converts a YYMMDD field (convertMrzDate of both
\* adapters, parseManualMRZ, parseMRZ) a field of exactly six digits gives a
\* date of the year 1900+YY when YY > 30 and 2000+YY when YY <= 30 (31 gives
\* 1931, 30 gives 2030), and any other field gives a null date.
C12_CenturyPivotAtEverySite ==
    (call.pc = "done" /\ call.op = "convertMrzDate") =>
        IF Len(call.input) = 6 /\ AllIn(call.input, Digit)
        THEN /\ ~IsNull(call.result)
             /\ Includes(Val(call.result),
                         NatToString(CenturyYear(ParseInt2(call.input))))
             /\ ~Includes(Val(call.result),
                          NatToString(CenturyYear(ParseInt2(call.input)) + 100))
             /\ ~Includes(Val(call.result),
                          NatToString(CenturyYear(ParseInt2(call.input)) - 100))
        ELSE IsNull(call.result)

\* parseMRZ has decoded the field of year 30 into a date of 2030
C12_Witness ==
    /\ call.pc = "done" /\ call.op = "convertMrzDate"
    /\ call.site = "parseMRZ" /\ call.input = "300812"
    /\ call.result = Some("2030-08-12")

\* a date written month/day/four-digit year
MonthDayYear(s) ==
    LET part == SplitOn(s, "/")
    IN  /\ Len(part) = 3
        /\ \A i \in 1..3 : part[i] # "" /\ AllIn(part[i], Digit)
        /\ Len(part[1]) <= 2 /\ Len(part[2]) <= 2 /\ Len(part[3]) = 4

C14_StateNameAndAbbreviationAgree ==
    (call.pc = "done" /\ call.op = "extractState") =>
        call.result = Some(STATE_MAP[call.region][2])

\* C15: extractAddress stops capturing right after the first captured line
\* that holds a postal code, also when that line is the one with the ADDRESS
\* label, so nothing of a later line is in the result; the captured pieces are
\* joined with ", " in the order of the input (the lines "ADDRESS: 123 MAIN
\* ST" and "ANYTOWN CA 94105" give "123 MAIN ST, ANYTOWN CA 94105").
C15_AddressEndsAtPostalCode ==
    (call.pc = "done" /\ call.op = "extractAddress") =>
        /\ \A i \in 1..(Len(call.addressLines) - 1) : ~ZIP_CODE(call.addressLines[i])
        /\ call.result = IF call.addressLines = <<>> THEN Null
                         ELSE Some(JoinWith(call.addressLines, ", "))
        /\ call.lines = <<"ADDRESS: 123 MAIN ST", "ANYTOWN CA 94105">> =>
               call.result = Some("123 MAIN ST, ANYTOWN CA 94105")

\* the tokens of a line that are 8 to 12 characters of A-Z and 0-9 between
\* word boundaries and not digits only
AlnumTokens(line) ==
    {Sub(line, i, i + RunLen(line, i, Upper \cup Digit) - 1) :
        i \in {j \in 1..Len(line) :
                  /\ BoundaryAt(line, j)
                  /\ RunLen(line, j, Upper \cup Digit) >= 8
                  /\ RunLen(line, j, Upper \cup Digit) <= 12
                  /\ ~WordAt(line, j + RunLen(line, j, Upper \cup Digit))
                  /\ ~AllIn(Sub(line, j, j + RunLen(line, j, Upper \cup Digit) - 1), Digit)}}

\* C16: when no line gives a labelled ID number and no line has a letter
\* followed by seven or more digits, extractIDNumber returns a token of 8 to 12
\* uppercase letters and digits that is not digits only whenever some line
\* holds such a token (as "D1234567A"), and null otherwise; a token of digits
\* only (as "123456789012") is never returned by this pass.
C16_AlphanumericTokenTier ==
    (/\ call.pc = "done" /\ call.op = "extractIDNumber"
     /\ IsNull(call.labelled) /\ IsNull(call.standalone)) =>
        LET tokens == UNION {AlnumTokens(call.lines[i]) : i \in 1..Len(call.lines)}
        IN  IF tokens = {} THEN IsNull(call.result)
            ELSE ~IsNull(call.result) /\ Val(call.result) \in tokens

\* C18: Textract is not called unless the credentials are provisioned:
\* scanWithTextract before a successful initTextract, or after an initTextract
\* without credentials, fails without sending a request, and the service is
\* available (initTextract creates the client) exactly when both the access
\* key id and the secret key are set.
C18_NoTextractCallWithoutCredentials ==
    /\ textractClient => (env.AWS_ACCESS_KEY_ID /\ env.AWS_SECRET_ACCESS_KEY)
    /\ (call.pc = "done" /\ call.op = "initTextract") =>
           (textractClient <=> (env.AWS_ACCESS_KEY_ID /\ env.AWS_SECRET_ACCESS_KEY))
    /\ TextractDone =>
           /\ call.sent => (env.AWS_ACCESS_KEY_ID /\ env.AWS_SECRET_ACCESS_KEY)
           /\ ~textractClient => (~call.sent /\ call.outcome = "threw")

\* scanWithTextract has failed without a request in a process that has the
\* access key id but not the secret key
C18_Witness ==
    /\ TextractDone /\ ~call.sent /\ call.outcome = "threw"
    /\ env.AWS_ACCESS_KEY_ID /\ ~env.AWS_SECRET_ACCESS_KEY

\* C19: every backend call of a scan (Tesseract recognize, the /ocr request,
\* the /health probe, Textract AnalyzeID) is awaited under an explicit time
\* limit, so that a scan ends in a record or a failure even when a backend
\* never answers.
C19_EveryBackendCallHasTimeout ==
    call.pc = "awaiting" => ~IsNull(call.timeout)

\* every awaited backend call comes to an end
C19_EveryBackendCallEnds == (call.pc = "awaiting") ~> (call.pc = "done")

\* C20: in the local adapter, whenever an MRZ is present (two or more
\* candidate lines), the address of the record returned is what extractAddress
\* finds in the lines of the text, whichever decoding (structured or manual)
\* gave the other fields. parsed.tesseract[text].address holds
\* extractAddress(lines) for such a text.
C20_MrzRecordAddressFromLines ==
    (TesseractDone /\ call.candidates >= 2 /\ call.outcome = "returned") =>
        Val(call.data).address = parsed.tesseract[call.text].address

\* the decoder's result reports validity or has a non-empty field
DecoderResultUsable(r) ==
    \/ r.valid
    \/ /\ ~IsNull(r.fields)
       /\ \E k \in DOMAIN Val(r.fields) :
              ~IsNull(Val(r.fields)[k]) /\ Val(Val(r.fields)[k]) # ""

\* C21: in the local adapter with an MRZ present, the record comes from the
\* structured decode exactly when the decoder is available, does not throw and
\* its result reports validity or has a non-empty field; in every other case
\* the manual decode gives the record, and the regex parsers do not make the
\* record once an MRZ is present.
C21_StructuredDecodeIffUsable ==
    (TesseractDone /\ call.candidates >= 2) =>
        LET usable == /\ mrzModule \in {"parse", "defaultParse"}
                      /\ ~IsNull(call.lib)
                      /\ DecoderResultUsable(Val(call.lib))
        IN  /\ call.steps = IF usable THEN <<"getMrzParse", "parse">>
                            ELSE IF mrzModule \in {"parse", "defaultParse"}
                            THEN <<"getMrzParse", "parse", "parseManualMRZ">>
                            ELSE <<"getMrzParse", "parseManualMRZ">>
            /\ ~usable => call.built = parsed.tesseract[call.text].unstructured
            /\ usable => ~IsNull(call.built)

\* the decoder's result was not valid but had a field, and the structured
\* decode gave the record
C21_Witness ==
    /\ TesseractDone /\ call.candidates >= 2
    /\ ~IsNull(call.lib) /\ ~Val(call.lib).valid
    /\ call.steps = <<"getMrzParse", "parse">>

\* what the manual decode is to make of the first two candidate lines: the
\* name, whether there is a birth date and its digits, and the document number
ManualDecodeOf(mrzLines) ==
    LET l1 == RemoveAll(mrzLines[1], Space)
        l2 == RemoveAll(mrzLines[2], Space)
        part == SplitOn(Sub(l1, 6, Len(l1)), "<<")
        surname == Trim(ReplaceAll(part[1], "<", " "))
        given == IF Len(part) >= 2 THEN Trim(ReplaceAll(part[2], "<", " ")) ELSE ""
        name == IF given # "" /\ surname # "" THEN given \o " " \o surname
                ELSE given \o surname
        number == RemoveAll(Sub(l2, 1, 9), {"<"})
    IN  [name |-> IF name = "" THEN Null ELSE Some(name),
         dob |-> IF AllIn(Sub(l2, 1, 6), Digit) THEN Some(Sub(l2, 1, 6)) ELSE Null,
         idNumber |-> IF number = "" THEN Null ELSE Some(number)]

\* the record r is that decode: its date, when there is one, holds the month
\* and the day of the six digits
IsManualDecode(r, d) ==
    /\ r.name = d.name
    /\ r.idNumber = d.idNumber
    /\ IsNull(r.dateOfBirth) = IsNull(d.dob)
    /\ ~IsNull(d.dob) =>
           /\ Includes(Val(r.dateOfBirth), Sub(Val(d.dob), 3, 4))
           /\ Includes(Val(r.dateOfBirth), Sub(Val(d.dob), 5, 6))

\* C22: the manual MRZ decode (parseManualMRZ, and parseMRZ of idParser.ts)
\* uses the first two candidate lines only, without their whitespace: the name
\* comes from line 1 from offset 5 on, split on "<<" into surname and given
\* name, with '<' made blanks and trimmed; the birth date comes from the first
\* six characters of line 2 and is null unless all six are digits; the
\* document number is the first nine characters of line 2 without '<', or
\* null when nothing is left.
C22_ManualDecodeOfFirstTwoLines ==
    (call.pc = "done" /\ call.op = "parseManualMRZ") =>
        LET d == ManualDecodeOf(call.mrzLines)
        IN  /\ ~IsNull(call.manual) /\ IsManualDecode(Val(call.manual), d)
            /\ ~IsNull(call.idParser) /\ IsManualDecode(Val(call.idParser), d)

\* three candidate lines were given and the first two were decoded
C22_Witness ==
    /\ call.pc = "done" /\ call.op = "parseManualMRZ"
    /\ call.mrzLines = <<MrzLine1, MrzLine2, "I<UTOD231458907<<<<<<<<<<<<<<<">>
    /\ Val(call.manual).name = Some("ANNA MARIA ERIKSSON")
    /\ Val(call.manual).idNumber = Some("7408122")
    /\ Val(call.idParser).dateOfBirth = Some("1974-08-12")

\* the pieces of the given shape, in text order
TokensOfShape(tokens, shape) ==
    LET of == SelectSeq(tokens, LAMBDA t : t[2] = shape)
    IN  [i \in 1..Len(of) |-> of[i][1]]

\* C23: extractAllDates returns all dates of the digits-only day/month/year
\* shape in text order, then all of the year-first shape, then all of the
\* shape with a month name; without an MRZ the dateOfBirth of the record is
\* the first element of that list (a date of the first shape even when a date
\* of a later shape stands before it in the text) and null when the list is
\* empty.
C23_DatesInPatternOrder ==
    (call.pc = "done" /\ call.op = "extractAllDates") =>
        /\ call.allDates = TokensOfShape(call.tokens, 1) \o TokensOfShape(call.tokens, 2)
                               \o TokensOfShape(call.tokens, 3)
        /\ call.dateOfBirth = IF call.allDates = <<>> THEN Null
                              ELSE Some(call.allDates[1])

\* a year-first date stands before a day/month/year date, which is chosen
C23_Witness ==
    /\ call.pc = "done" /\ call.op = "extractAllDates"
    /\ call.text = "1990-01-02 01/02/1990"
    /\ call.allDates = <<"01/02/1990", "1990-01-02">>
    /\ call.dateOfBirth = Some("01/02/1990")

\* only letters, blanks, hyphens and apostrophes, and 2 to 50 characters
NameLike(v) ==
    /\ AllIn(v, Upper \cup Lower \cup {" ", "-", "'"})
    /\ Len(v) >= 2 /\ Len(v) <= 50

\* C24: for a line whose label starts with "NAME" or contains "FULL NAME",
\* extractName returns exactly the text after the label when that text is
\* name-like: for the line "FULL NAME: V" the result is V, with no part of the
\* label in it.
C24_LabelledNameIsValueOnly ==
    (call.pc = "done" /\ call.op = "extractName" /\ NameLike(call.value)) =>
        call.result = Some(call.value)

\* C25: in extractAddress a line that holds "ADDRESS" or "ADDR" starts the
\* capture and gives only the text after the label on that line (nothing when
\* no text follows): the label is never part of the address returned, for the
\* form "ADDR" as for the form "ADDRESS".
C25_AddressLabelNotInResult ==
    (call.pc = "done" /\ call.op = "extractAddress") =>
        \A i \in 1..Len(call.addressLines) :
            ~Includes(ToUpperCase(call.addressLines[i]), "ADDR")

\* a field of the MRZ block as a string, empty when it is missing
BlockText(v) == IF IsNull(v) THEN "" ELSE Val(v)

\* the record r holds the fields of the MRZ block b and nothing else: given
\* names before the surname, the birth date by the YYMMDD rule, the document
\* number, the country or else the nationality, and no address
IsBlockRecord(r, b) ==
    LET given == Trim(ReplaceAll(BlockText(b.given_names), "<", " "))
        surname == Trim(ReplaceAll(BlockText(b.surname), "<", " "))
        name == IF given # "" /\ surname # "" THEN given \o " " \o surname
                ELSE given \o surname
        number == Trim(RemoveAll(BlockText(b.document_number), {"<"}))
        region == IF BlockText(b.country) # "" THEN BlockText(b.country)
                  ELSE BlockText(b.nationality)
        dob == BlockText(b.date_of_birth)
    IN  /\ r.name = (IF name = "" THEN Null ELSE Some(name))
        /\ r.idNumber = (IF number = "" THEN Null ELSE Some(number))
        /\ r.state = (IF region = "" THEN Null ELSE Some(region))
        /\ r.address = Null
        /\ IsNull(r.dateOfBirth) = ~(Len(dob) = 6 /\ AllIn(dob, Digit))

\* C26: in the specialized adapter, when the OCR service reports an MRZ block
\* the record is built from the fields of that block only (name from given
\* names and surname, birth date by the YYMMDD rule, document number, country
\* or nationality, address null) and the regex parsers are not run, even when
\* that record is all null; the regex parsers run over the service's text
\* exactly when no MRZ block is reported.
C26_MrzBlockAloneMakesRecord ==
    (EasyOCRDone /\ call.steps # <<>>) =>
        IF IsNull(call.mrz) THEN call.steps = <<"regex">>
        ELSE /\ call.steps = <<"mrz">>
             /\ ~IsNull(call.built) /\ IsBlockRecord(Val(call.built), Val(call.mrz))
             /\ AllNull(Val(call.built)) => call.outcome = "threw"

\* an MRZ block without any field was reported: no regex parser ran and the
\* call failed on the all-null record
C26_Witness ==
    /\ EasyOCRDone /\ call.steps = <<"mrz">>
    /\ call.mrz = Some(NoMrzBlock)
    /\ AllNull(Val(call.built)) /\ call.outcome = "threw"


\* C27: for every bag of typed fields returned by the cloud service, the
\* /api/scan handler of server.js answers with the record that scanWithTextract
\* of textractService.js builds from the same bag (same name, dateOfBirth,
\* address, idNumber and state), and dateOfBirth is non-null only when the
\* bag holds a DATE_OF_BIRTH field.
C27_HandlerAndAdapterAgree ==
    (call.pc = "done" /\ call.op = "apiScan" /\ call.responses[1].status = 200) =>
        /\ call.responses[1].body.data = textract_data(call.fields)
        /\ ~IsNull(call.responses[1].body.data.dateOfBirth)
               => call.fields["DATE_OF_BIRTH"] # ""


\* C28: whenever extractIDNumber returns a value, the value holds at least one
\* digit; a line with a document-number keyword and no number, such as
\* "LICENSE" alone, never makes the keyword itself the ID number.
C28_IdNumberHoldsADigit ==
    (call.pc = "done" /\ call.op = "extractIDNumber" /\ ~IsNull(call.result)) =>
        /\ \E i \in 1..Len(Val(call.result)) : Ch(Val(call.result), i) \in Digit
        /\ ToUpperCase(Val(call.result)) \notin IdKeywords


\* scanID returned a record with a name, a birth date or an ID number
ScanUsable(scan) ==
    /\ scan.outcome = "returned"
    /\ \E f \in {"name", "dateOfBirth", "idNumber"} :
          ~IsNull(Val(scan.data)[f]) /\ Val(Val(scan.data)[f]) # ""

\* C29: on the client, the shared scannedData is set and the navigation to the
\* form is scheduled only when scanID returned a record in which name,
\* dateOfBirth or idNumber is non-empty; when scanID throws, as it does on any
\* non-OK HTTP response, or returns a record with those three empty, the
\* screen enters the error state and scannedData is left unchanged.
C29_ScannedDataSetOnlyOnUsableRecord ==
    (call.pc = "done" /\ call.op = "processImage") =>
        /\ (~IsNull(call.fetched) /\ Val(call.fetched).status \notin 200..299)
               => call.scan.outcome = "threw"
        /\ IF ScanUsable(call.scan)
           THEN /\ app.scannedData = call.scan.data
                /\ app.timers = call.before.timers + 1
                /\ app.state = "success"
           ELSE /\ app.state = "error"
                /\ app.scannedData = call.before.scannedData
                /\ app.timers = call.before.timers
        /\ app.route = call.before.route

\* a second scan, begun with a record in scannedData, got a record without
\* name, birth date and ID number: the error view is shown and the earlier
\* record is still there
C29_Witness ==
    /\ call.pc = "done" /\ call.op = "processImage"
    /\ call.scan.outcome = "returned" /\ ~ScanUsable(call.scan)
    /\ ~IsNull(call.before.scannedData)
    /\ app.state = "error" /\ app.scannedData = call.before.scannedData

====
